---- MODULE Spec2Model ----
(***************************************************************************)
(* The dispatch engine of automatic-messaging: the messages table and the  *)
(* PostgresMessageRepo operations on it, the tick function that claims a   *)
(* batch and runs Sender.ProcessBatch over it, and the Scheduler that      *)
(* drives ticks.                                                           *)
(*                                                                         *)
(* Spec      : the store and any number of ticks of two dispatchers racing *)
(*             on it, each tick with its own context; no cache is          *)
(*             configured (REDIS_ADDR unset, msgCache == nil).             *)
(* ClaimSpec : the store under concurrent calls of ClaimPending with any   *)
(*             limit.                                                      *)
(* RepoSpec  : the repository with MarkSent called directly, repeatedly.   *)
(* ConfigSpec : the ticks of one process under any valid configuration    *)
(*             (cache or none, any batch size), the webhook answering in   *)
(*             any way.                                                    *)
(* PickupSpec : the ticks of one process when no call fails and the tick    *)
(*             always takes its next step (progress claims).               *)
(* SchedSpec : the lifecycle of one Scheduler with concurrent callers of   *)
(*             Start and Stop and an opaque tick function.                 *)
(* ApiSpec   : the Scheduler driven by concurrent requests to the control  *)
(*             API.                                                        *)
(* SchedFairSpec : the same lifecycle with two callers, under the          *)
(*             scheduling the Go runtime guarantees (progress claims).     *)
(* ReentrantSpec : the fair lifecycle with a tick function that itself     *)
(*             calls Start and Stop.                                       *)
(* ShutdownSpec : the process from main's sched.Start() through            *)
(*             runWithGracefulShutdown to its exit, requests being served. *)
(***************************************************************************)
EXTENDS Integers, Sequences, FiniteSets, TLC

\* ------------------------------------------------------------------ bounds
MaxRows == 2            \* rows ever inserted into messages
MaxClock == 2           \* the clock takes the values 1..MaxClock
MaxStarts == 2          \* successful Start calls of a scheduler
MaxTicks == 2           \* tick invocations of one worker
NumCallers == 2         \* goroutines calling Start / Stop concurrently
MaxMarkSent == 2        \* direct calls of MarkSent for one row

\* ------------------------------------------------------- program constants
BatchSize == 2          \* SCHED_BATCH_SIZE default
ContentMax == 3         \* the Sender's contentMax (value used by its test)

Dispatchers == {1, 2}    \* two processes racing on the same store
Callers == 1..NumCallers
Workers == 1..MaxStarts
RowIds == 1..MaxRows

Null == "NULL"          \* SQL NULL of a text / uuid column
NullTime == 0           \* SQL NULL of a timestamptz column; real times are >= 1

\* remote ids the webhook may return: the column remote_message_id is UUID,
\* so only UUID-shaped text can be stored
UUIDs == {"uuid-a", "uuid-b"}
IsUUID(s) == s \in UUIDs

VARIABLES
    \* ---- the store
    messages,     \* the messages table: sequence of rows, id = index (BIGSERIAL)
    now,          \* wall clock
    cache,        \* redis: id -> remoteMessageId stored under msg:<id>, or Null
    cacheOn,      \* msgCache != nil
    \* ---- one tick of each dispatcher (locals of the tick function)
    pc,           \* position of dispatcher d inside its tick
    ctxDone,      \* the tick's context is cancelled
    limit,        \* limit argument of the ClaimPending call of the tick
    msgs,         \* ids selected by ClaimPending (locked while pc = "claim_tx"), then the batch
    idx,          \* index of the message ProcessBatch is at
    sent,         \* ProcessBatch's sent counter
    failed,       \* ProcessBatch's failed counter
    remoteID,     \* remote id returned by the last Send
    reason,       \* reason passed to fail()
    resp,         \* what the webhook answered to the Send of the current message
    hookErr,      \* what the last hook call returned (Null: nil)
    \* ---- observations (history)
    okSends,      \* id -> remote ids returned by successful Send calls for that row
    sendCalls,    \* id -> number of Send invocations for that row
    claimCount,   \* id -> number of ClaimPending calls that returned the row
    markSentCount, \* id -> number of MarkSent updates applied to the row
    \* ---- the scheduler
    running,      \* Scheduler.running
    mu,           \* Scheduler.mu: 0 or the caller holding it
    cancel,       \* Scheduler.cancel: token it cancels (0 = nil)
    done,         \* Scheduler.done: channel id
    cancelled,    \* tokens whose cancel func has been called
    closed,       \* closed channels
    nStarts,      \* number of successful Start calls so far (= tokens = workers made)
    wpc,          \* position of worker goroutine w
    wdone,        \* channel captured by worker w's deferred close(s.done)
    ticks,        \* number of tick invocations begun in the current run
    panicked,     \* a tick of the current run panicked and safeTick recovered it
    stopAt,       \* history: where the worker was when Stop called s.cancel()
    tickCtx,      \* token handed to the tick invocation in progress (0: none)
    cpc,          \* position of caller c
    ret,          \* last value returned to caller c: <<op, bool>>
    lastOp,       \* last lifecycle call that returned true: "none", "Start", "Stop"
    \* ---- the control API
    api,          \* handler the goroutine c is serving: "none", "start", "stop"
    body          \* last response written: <<handler, status code, running>>

storeVars == <<messages, now, cache, cacheOn>>
tickVars  == <<pc, ctxDone, limit, msgs, idx, sent, failed, remoteID, reason,
               resp, hookErr>>
histVars  == <<okSends, sendCalls, claimCount, markSentCount>>
schedVars == <<running, mu, cancel, done, cancelled, closed, nStarts, wpc, wdone,
               ticks, panicked, stopAt, tickCtx, cpc, ret, lastOp, api, body>>
vars == <<storeVars, tickVars, histVars, schedVars>>

\* =================================================================== store

Range(s) == {s[i] : i \in 1..Len(s)}

\* a row as INSERT leaves it, with the column defaults of the migration.
\* content stands for its length in code points; recipient_phone and
\* updated_at, which no operation reads, are left out. A batch element
\* (model.Message) is kept as its id: the columns ProcessBatch reads from it
\* never change.
NewRow(len, t) ==
    [ content           |-> len,      \* char_length(content)
      status            |-> "pending",
      attempt_count     |-> 0,
      last_error        |-> Null,
      sent_at           |-> NullTime,
      remote_message_id |-> Null,
      created_at        |-> t ]

\* rows whose lock is held by the open ClaimPending transaction of d
LockedBy(d) == IF pc[d] = "claim_tx" THEN Range(msgs[d]) ELSE {}
Locked == UNION {LockedBy(d) : d \in Dispatchers}

\* mutant: a plain SELECT, without FOR UPDATE SKIP LOCKED
SelectableNoLock(tbl, id) == tbl[id].status = "pending"

\* mutant: the query also takes rows left in processing
SelectableOrProcessing(tbl, id) ==
    tbl[id].status \in {"pending", "processing"} /\ id \notin Locked

\* mutant: the query takes failed rows again (a retry)
SelectableOrFailed(tbl, id) ==
    tbl[id].status \in {"pending", "failed"} /\ id \notin Locked

\* WHERE status = 'pending' ... FOR UPDATE SKIP LOCKED
Selectable(tbl, id) == tbl[id].status = "pending" /\ id \notin Locked

\* mutant: the query has lost its LIMIT
SelectPendingNoLimit(tbl, lim) ==
    LET elig == {id \in 1..Len(tbl) : Selectable(tbl, id)}
        k    == Cardinality(elig)
    IN  { s \in [1..k -> elig] :
            /\ \A i, j \in 1..k : i < j => s[i] # s[j]
            /\ \A i, j \in 1..k : i < j => tbl[s[i]].created_at <= tbl[s[j]].created_at }

\* ORDER BY created_at ASC ... LIMIT $1: every sequence the query may return.
\* Rows with equal created_at come in any order.
SelectPending(tbl, lim) ==
    LET elig == {id \in 1..Len(tbl) : Selectable(tbl, id)}
        k    == IF Cardinality(elig) < lim THEN Cardinality(elig) ELSE lim
    IN  { s \in [1..k -> elig] :
            /\ \A i, j \in 1..k : i < j => s[i] # s[j]
            /\ \A i, j \in 1..k : i < j => tbl[s[i]].created_at <= tbl[s[j]].created_at
            /\ \A i \in 1..k : \A r \in elig \ Range(s) :
                   tbl[s[i]].created_at <= tbl[r].created_at }

\* mutant: the selected rows are returned but never moved to processing
ClaimUpdateNoop(tbl, ids) == tbl

\* UPDATE messages SET status = 'processing' WHERE id = $1, for each selected row
ClaimUpdate(tbl, ids) ==
    [id \in 1..Len(tbl) |->
        IF id \in Range(ids) THEN [tbl[id] EXCEPT !.status = "processing"] ELSE tbl[id]]

\* mutant: sent_at is not set
MarkSentNoSentAt(tbl, id, remote, t) ==
    [i \in 1..Len(tbl) |->
        IF i = id
        THEN [tbl[i] EXCEPT !.status = "sent", !.remote_message_id = remote]
        ELSE tbl[i]]

\* mutant: remote_message_id is not set
MarkSentNoRemote(tbl, id, remote, t) ==
    [i \in 1..Len(tbl) |->
        IF i = id THEN [tbl[i] EXCEPT !.status = "sent", !.sent_at = t] ELSE tbl[i]]

\* mutant: the UPDATE skips a row that is already sent (AND status <> 'sent')
MarkSentUnlessSent(tbl, id, remote, t) ==
    [i \in 1..Len(tbl) |->
        IF i = id /\ tbl[i].status # "sent"
        THEN [tbl[i] EXCEPT !.status = "sent", !.sent_at = t, !.remote_message_id = remote]
        ELSE tbl[i]]

\* UPDATE messages SET status='sent', sent_at=now(), remote_message_id=$2 WHERE id=$1
MarkSent(tbl, id, remote, t) ==
    [i \in 1..Len(tbl) |->
        IF i = id
        THEN [tbl[i] EXCEPT !.status = "sent", !.sent_at = t, !.remote_message_id = remote]
        ELSE tbl[i]]

\* mutant: the UPDATE has lost its WHERE id = $1
MarkFailedNoWhere(tbl, id, why) ==
    [i \in 1..Len(tbl) |->
        [tbl[i] EXCEPT !.status = "failed", !.attempt_count = @ + 1, !.last_error = why]]

\* mutant: attempt_count is not incremented
MarkFailedNoAttempt(tbl, id, why) ==
    [i \in 1..Len(tbl) |->
        IF i = id THEN [tbl[i] EXCEPT !.status = "failed", !.last_error = why] ELSE tbl[i]]

\* mutant: a failure puts the row back to pending, to be retried
MarkFailedRequeues(tbl, id, why) ==
    [i \in 1..Len(tbl) |->
        IF i = id
        THEN [tbl[i] EXCEPT !.status = "pending",
                            !.attempt_count = @ + 1,
                            !.last_error = why]
        ELSE tbl[i]]

\* UPDATE messages SET status='failed', attempt_count=attempt_count+1, last_error=$2 WHERE id=$1
MarkFailed(tbl, id, why) ==
    [i \in 1..Len(tbl) |->
        IF i = id
        THEN [tbl[i] EXCEPT !.status = "failed",
                            !.attempt_count = @ + 1,
                            !.last_error = why]
        ELSE tbl[i]]

\* RedisCache.StoreSent: SET msg:<id> {remoteMessageId, sentAt}
StoreSent(c, id, remote) == [c EXCEPT ![id] = remote]

\* ================================================================= webhook

\* what the webhook may answer in Spec
Responses ==
    { [status |-> 202, json |-> TRUE, messageId |-> "uuid-a"],
      [status |-> 202, json |-> TRUE, messageId |-> "r-1"],
      [status |-> 200, json |-> FALSE, messageId |-> ""] }

\* no HTTP response: the request was never answered (status 0)
NoResponse == [status |-> 0, json |-> FALSE, messageId |-> ""]

\* every kind of answer Send tells apart: none, a status other than 202,
\* and 202 with a body that is not JSON, lacks messageId, or carries one
AllResponses ==
    {NoResponse} \cup
    [status : {200, 202, 500}, json : BOOLEAN, messageId : {"", "uuid-a"}]

\* mutant: an empty messageId is not checked for
SendAcceptsEmptyId(ctxCancelled, rsp) ==
    IF ctxCancelled THEN [id |-> "", err |-> "context canceled"]
    ELSE IF rsp.status = 0 THEN [id |-> "", err |-> "connection refused"]
    ELSE IF rsp.status # 202 THEN [id |-> "", err |-> "unexpected status code"]
    ELSE IF ~rsp.json THEN [id |-> "", err |-> "failed to decode json"]
    ELSE [id |-> rsp.messageId, err |-> Null]

\* WebhookClient.Send: (remote id, error text); error text Null means err == nil
Send(ctxCancelled, rsp) ==
    IF ctxCancelled THEN [id |-> "", err |-> "context canceled"]
    ELSE IF rsp.status = 0 THEN [id |-> "", err |-> "connection refused"]
    ELSE IF rsp.status # 202 THEN [id |-> "", err |-> "unexpected status code"]
    ELSE IF ~rsp.json THEN [id |-> "", err |-> "failed to decode json"]
    ELSE IF rsp.messageId = "" THEN [id |-> "", err |-> "missing messageId in response"]
    ELSE [id |-> rsp.messageId, err |-> Null]

\* ==================================================================== tick

\* mutant: the length check is off by one (>= instead of >)
TooLongOffByOne(tbl, id) == tbl[id].content >= ContentMax

\* utf8.RuneCountInString(m.Content) > s.contentMax
TooLong(tbl, id) == tbl[id].content > ContentMax

\* fmt.Sprintf("content exceeds %d chars", s.contentMax)
LengthReason == "content exceeds " \o ToString(ContentMax) \o " chars"

\* an empty table and an empty cache, no tick in progress
EmptyStore ==
    /\ messages = <<>>
    /\ now = 1
    /\ cache = [id \in RowIds |-> Null]
    /\ pc = [d \in Dispatchers |-> "idle"]
    /\ ctxDone = [d \in Dispatchers |-> FALSE]
    /\ limit = [d \in Dispatchers |-> 0]
    /\ msgs = [d \in Dispatchers |-> <<>>]
    /\ idx = [d \in Dispatchers |-> 0]
    /\ sent = [d \in Dispatchers |-> 0]
    /\ failed = [d \in Dispatchers |-> 0]
    /\ remoteID = [d \in Dispatchers |-> ""]
    /\ reason = [d \in Dispatchers |-> ""]
    /\ resp = [d \in Dispatchers |-> NoResponse]
    /\ hookErr = [d \in Dispatchers |-> Null]
    /\ okSends = [id \in RowIds |-> <<>>]
    /\ sendCalls = [id \in RowIds |-> 0]
    /\ claimCount = [id \in RowIds |-> 0]
    /\ markSentCount = [id \in RowIds |-> 0]

\* no cache configured: REDIS_ADDR unset, msgCache == nil
StoreInit == EmptyStore /\ cacheOn = FALSE

\* rows are inserted from outside the engine, status pending by default
\* the clock readings a statement may take: time does not run backwards
Clock == {t \in now..(now + 1) : t <= MaxClock}

InsertMessage ==
    /\ Len(messages) < MaxRows
    /\ \E len \in {ContentMax, ContentMax + 1}, t \in Clock :
           /\ messages' = Append(messages, NewRow(len, t))
           /\ now' = t
    /\ UNCHANGED <<cache, cacheOn, tickVars, histVars, schedVars>>

\* the locals of a tick that has returned
Returned(d) ==
    /\ pc' = [pc EXCEPT ![d] = "idle"]
    /\ msgs' = [msgs EXCEPT ![d] = <<>>]
    /\ idx' = [idx EXCEPT ![d] = 0]
    /\ sent' = [sent EXCEPT ![d] = 0]
    /\ failed' = [failed EXCEPT ![d] = 0]
    /\ remoteID' = [remoteID EXCEPT ![d] = ""]
    /\ reason' = [reason EXCEPT ![d] = ""]
    /\ resp' = [resp EXCEPT ![d] = NoResponse]
    /\ hookErr' = [hookErr EXCEPT ![d] = Null]
    /\ ctxDone' = [ctxDone EXCEPT ![d] = FALSE]
    /\ limit' = [limit EXCEPT ![d] = 0]

\* limits a caller may pass to ClaimPending: positive ones and one that is not
Limits == {0, 1, BatchSize}

\* ClaimPending(ctx, lim) is called, with a context that may already be
\* cancelled
BeginClaim(d, lim) ==
    /\ pc[d] = "idle"
    /\ pc' = [pc EXCEPT ![d] = "claim"]
    /\ \E c \in BOOLEAN : ctxDone' = [ctxDone EXCEPT ![d] = c]
    /\ limit' = [limit EXCEPT ![d] = lim]
    /\ UNCHANGED <<msgs, idx, sent, failed, remoteID, reason, resp, hookErr,
                   storeVars, histVars, schedVars>>

\* the worker invokes the tick function with its context, which may already
\* be cancelled; the tick function calls ClaimPending(ctx, cfg.Scheduler.BatchSize)
TickBegin(d) == BeginClaim(d, BatchSize)

\* the context of a tick in progress is cancelled (Stop) while the tick
\* still has a call ahead that takes the context
CancelCtx(d) ==
    /\ pc[d] \in {"claim", "claim_tx", "batch", "on_sent", "on_failed"}
    /\ ~ctxDone[d]
    /\ ctxDone' = [ctxDone EXCEPT ![d] = TRUE]
    /\ UNCHANGED <<pc, limit, msgs, idx, sent, failed, remoteID, reason, resp, hookErr,
                   storeVars, histVars, schedVars>>

\* mutant: BeginTx and the query run without the context
ClaimSelectIgnoresCtx(d, lim) ==
    /\ pc[d] = "claim"
    /\ \/ /\ Returned(d)
          /\ UNCHANGED <<storeVars, histVars, schedVars>>
       \/ /\ lim > 0
          /\ \E s \in SelectPending(messages, lim) :
                IF Len(s) = 0
                THEN /\ pc' = [pc EXCEPT ![d] = "claim_empty"]
                     /\ UNCHANGED <<ctxDone, limit, msgs, idx, sent, failed, remoteID,
                                    reason, resp, hookErr, storeVars, histVars, schedVars>>
                ELSE /\ pc' = [pc EXCEPT ![d] = "claim_tx"]
                     /\ msgs' = [msgs EXCEPT ![d] = s]
                     /\ UNCHANGED <<ctxDone, limit, idx, sent, failed, remoteID,
                                    reason, resp, hookErr, storeVars, histVars, schedVars>>

\* ClaimPending up to the SELECT: the limit check, BeginTx and the query
ClaimSelect(d, lim) ==
    /\ pc[d] = "claim"
    /\ \/ \* limit <= 0, or BeginTx or the query fails (always so on a
          \* cancelled context): nil, err; the tick logs and returns
          /\ Returned(d)
          /\ UNCHANGED <<storeVars, histVars, schedVars>>
       \/ /\ lim > 0
          /\ ~ctxDone[d]
          /\ \E s \in SelectPending(messages, lim) :
                IF Len(s) = 0
                THEN \* commit of the empty transaction: nil, nil
                     /\ pc' = [pc EXCEPT ![d] = "claim_empty"]
                     /\ UNCHANGED <<ctxDone, limit, msgs, idx, sent, failed, remoteID,
                                    reason, resp, hookErr, storeVars, histVars, schedVars>>
                ELSE /\ pc' = [pc EXCEPT ![d] = "claim_tx"]
                     /\ msgs' = [msgs EXCEPT ![d] = s]
                     /\ UNCHANGED <<ctxDone, limit, idx, sent, failed, remoteID,
                                    reason, resp, hookErr, storeVars, histVars, schedVars>>

\* mutant: the per-row updates run outside a transaction, so a failure
\* after the first update leaves that row updated
ClaimCommitNoTx(d) ==
    /\ pc[d] = "claim_tx"
    /\ \/ /\ messages' = ClaimUpdate(messages, <<msgs[d][1]>>)
          /\ Returned(d)
          /\ UNCHANGED <<now, cache, cacheOn, histVars, schedVars>>
       \/ /\ ~ctxDone[d]
          /\ messages' = ClaimUpdate(messages, msgs[d])
          /\ claimCount' = [id \in RowIds |->
                               IF id \in Range(msgs[d]) THEN claimCount[id] + 1
                               ELSE claimCount[id]]
          /\ pc' = [pc EXCEPT ![d] = "batch"]
          /\ idx' = [idx EXCEPT ![d] = 1]
          /\ UNCHANGED <<ctxDone, limit, msgs, sent, failed, remoteID, reason, resp, hookErr,
                         now, cache, cacheOn, okSends, sendCalls, markSentCount,
                         schedVars>>

\* ClaimPending from the per-row updates to the commit
ClaimCommit(d) ==
    /\ pc[d] = "claim_tx"
    /\ \/ \* an update or the commit fails and the transaction is rolled back
          \* (deferred Rollback, or the server's abort): nil, err; the tick
          \* logs and returns
          /\ Returned(d)
          /\ UNCHANGED <<storeVars, histVars, schedVars>>
       \/ \* tx.Commit() returns an error although the server has committed
          \* (the connection breaks before the acknowledgement arrives):
          \* nil, err; the tick logs and returns
          /\ ~ctxDone[d]
          /\ messages' = ClaimUpdate(messages, msgs[d])
          /\ Returned(d)
          /\ UNCHANGED <<now, cache, cacheOn, histVars, schedVars>>
       \/ \* the updates and the commit succeed: msgs, nil
          /\ ~ctxDone[d]
          /\ messages' = ClaimUpdate(messages, msgs[d])
          /\ claimCount' = [id \in RowIds |->
                               IF id \in Range(msgs[d]) THEN claimCount[id] + 1
                               ELSE claimCount[id]]
          /\ pc' = [pc EXCEPT ![d] = "batch"]
          /\ idx' = [idx EXCEPT ![d] = 1]
          /\ UNCHANGED <<ctxDone, limit, msgs, sent, failed, remoteID, reason, resp, hookErr,
                         now, cache, cacheOn, okSends, sendCalls, markSentCount,
                         schedVars>>

\* mutant: the loop steps over the message after the one just handled
NextMessageSkipsOne(d) ==
    /\ idx' = [idx EXCEPT ![d] = @ + 2]
    /\ resp' = [resp EXCEPT ![d] = NoResponse]
    /\ pc' = [pc EXCEPT ![d] = IF idx[d] + 2 > Len(msgs[d]) THEN "batch_done" ELSE "batch"]

\* ProcessBatch moves to the next message, or returns
NextMessage(d) ==
    /\ idx' = [idx EXCEPT ![d] = @ + 1]
    /\ resp' = [resp EXCEPT ![d] = NoResponse]
    /\ pc' = [pc EXCEPT ![d] = IF idx[d] + 1 > Len(msgs[d]) THEN "batch_done" ELSE "batch"]

\* mutant: the error of Send is ignored, every Send counts as sent
ProcessSendErrIgnored(d) ==
    /\ pc[d] = "batch"
    /\ LET m == msgs[d][idx[d]] IN
       IF TooLong(messages, m)
       THEN /\ failed' = [failed EXCEPT ![d] = @ + 1]
            /\ reason' = [reason EXCEPT ![d] = LengthReason]
            /\ pc' = [pc EXCEPT ![d] = "on_failed"]
            /\ UNCHANGED <<ctxDone, limit, msgs, idx, sent, remoteID, resp, hookErr,
                           storeVars, histVars, schedVars>>
       ELSE \E rsp \in (IF ctxDone[d] THEN {NoResponse} ELSE Responses) :
            LET r == Send(ctxDone[d], rsp) IN
            /\ resp' = [resp EXCEPT ![d] = rsp]
            /\ sendCalls' = [sendCalls EXCEPT ![m] = @ + 1]
            /\ sent' = [sent EXCEPT ![d] = @ + 1]
            /\ remoteID' = [remoteID EXCEPT ![d] = r.id]
            /\ okSends' = IF r.err = Null
                          THEN [okSends EXCEPT ![m] = Append(@, r.id)] ELSE okSends
            /\ pc' = [pc EXCEPT ![d] = "on_sent"]
            /\ UNCHANGED <<failed, reason>>
            /\ UNCHANGED <<ctxDone, limit, msgs, idx, hookErr, storeVars, claimCount,
                           markSentCount,
                           schedVars>>

\* ProcessBatch: the length check and the Send of message idx, the webhook
\* answering with one of resps unless the context is cancelled first
ProcessMessage(d, resps) ==
    /\ pc[d] = "batch"
    /\ LET m == msgs[d][idx[d]] IN
       IF TooLong(messages, m)
       THEN /\ failed' = [failed EXCEPT ![d] = @ + 1]
            /\ reason' = [reason EXCEPT ![d] = LengthReason]
            /\ pc' = [pc EXCEPT ![d] = "on_failed"]
            /\ UNCHANGED <<ctxDone, limit, msgs, idx, sent, remoteID, resp, hookErr,
                           storeVars, histVars, schedVars>>
       ELSE \E rsp \in (IF ctxDone[d] THEN {NoResponse} ELSE resps) :
            LET r == Send(ctxDone[d], rsp) IN
            /\ resp' = [resp EXCEPT ![d] = rsp]
            /\ sendCalls' = [sendCalls EXCEPT ![m] = @ + 1]
            /\ IF r.err # Null
               THEN /\ failed' = [failed EXCEPT ![d] = @ + 1]
                    /\ reason' = [reason EXCEPT ![d] = r.err]
                    /\ pc' = [pc EXCEPT ![d] = "on_failed"]
                    /\ UNCHANGED <<sent, remoteID, okSends>>
               ELSE /\ sent' = [sent EXCEPT ![d] = @ + 1]
                    /\ remoteID' = [remoteID EXCEPT ![d] = r.id]
                    /\ okSends' = [okSends EXCEPT ![m] = Append(@, r.id)]
                    /\ pc' = [pc EXCEPT ![d] = "on_sent"]
                    /\ UNCHANGED <<failed, reason>>
            /\ UNCHANGED <<ctxDone, limit, msgs, idx, hookErr, storeVars, claimCount,
                           markSentCount,
                           schedVars>>

\* ProcessBatch with the webhook of Spec
ProcessSend(d) == ProcessMessage(d, Responses)

\* mutant: ProcessBatch returns on the error of the onSent hook
OnSentAbortsOnError(d) ==
    /\ pc[d] = "on_sent"
    /\ LET m == msgs[d][idx[d]] IN
       \/ /\ Returned(d)
          /\ UNCHANGED <<messages, now, cache, markSentCount>>
       \/ /\ ~ctxDone[d]
          /\ IsUUID(remoteID[d])
          /\ \E t \in Clock :
                /\ messages' = MarkSent(messages, m, remoteID[d], t)
                /\ now' = t
          /\ markSentCount' = [markSentCount EXCEPT ![m] = @ + 1]
          /\ UNCHANGED cache
          /\ NextMessage(d)
          /\ UNCHANGED <<ctxDone, limit, msgs, sent, failed, remoteID, reason, hookErr>>
    /\ UNCHANGED <<cacheOn, okSends, sendCalls, claimCount, schedVars>>

\* mutant: a StoreSent error is returned by the hook
OnSentCacheErrReturned(d) ==
    /\ pc[d] = "on_sent"
    /\ LET m == msgs[d][idx[d]] IN
       \/ /\ hookErr' = [hookErr EXCEPT ![d] = "mark sent failed"]
          /\ UNCHANGED <<messages, now, cache, markSentCount>>
       \/ /\ ~ctxDone[d]
          /\ IsUUID(remoteID[d])
          /\ \E t \in Clock :
                /\ messages' = MarkSent(messages, m, remoteID[d], t)
                /\ now' = t
          /\ markSentCount' = [markSentCount EXCEPT ![m] = @ + 1]
          /\ \E stored \in BOOLEAN :
                /\ cache' = IF cacheOn /\ stored
                            THEN StoreSent(cache, m, remoteID[d]) ELSE cache
                /\ hookErr' = [hookErr EXCEPT ![d] =
                                  IF cacheOn /\ ~stored THEN "store sent failed" ELSE Null]
    /\ NextMessage(d)
    /\ UNCHANGED <<ctxDone, limit, msgs, sent, failed, remoteID, reason,
                   cacheOn, okSends, sendCalls, claimCount, schedVars>>

\* mutant: the hook writes the cache entry before MarkSent, and keeps it
\* when MarkSent fails
OnSentStoresFirst(d) ==
    /\ pc[d] = "on_sent"
    /\ LET m == msgs[d][idx[d]] IN
       \/ /\ hookErr' = [hookErr EXCEPT ![d] = "mark sent failed"]
          /\ cache' = IF cacheOn THEN StoreSent(cache, m, remoteID[d]) ELSE cache
          /\ UNCHANGED <<messages, now, markSentCount>>
       \/ /\ ~ctxDone[d]
          /\ IsUUID(remoteID[d])
          /\ \E t \in Clock :
                /\ messages' = MarkSent(messages, m, remoteID[d], t)
                /\ now' = t
          /\ markSentCount' = [markSentCount EXCEPT ![m] = @ + 1]
          /\ cache' = IF cacheOn THEN StoreSent(cache, m, remoteID[d]) ELSE cache
          /\ hookErr' = [hookErr EXCEPT ![d] = Null]
    /\ NextMessage(d)
    /\ UNCHANGED <<ctxDone, limit, msgs, sent, failed, remoteID, reason,
                   cacheOn, okSends, sendCalls, claimCount, schedVars>>

\* the onSent hook: MarkSent, then StoreSent (best effort) when a cache is set
OnSent(d) ==
    /\ pc[d] = "on_sent"
    /\ LET m == msgs[d][idx[d]] IN
       \/ \* MarkSent fails: logged, the hook returns the error, which is dropped
          /\ hookErr' = [hookErr EXCEPT ![d] = "mark sent failed"]
          /\ UNCHANGED <<messages, now, cache, markSentCount>>
       \/ /\ ~ctxDone[d]
          /\ IsUUID(remoteID[d])
          /\ \E t \in Clock :
                /\ messages' = MarkSent(messages, m, remoteID[d], t)
                /\ now' = t
          /\ markSentCount' = [markSentCount EXCEPT ![m] = @ + 1]
          /\ \E stored \in BOOLEAN :
                \* msgCache == nil, or StoreSent fails (logged only): no entry
                cache' = IF cacheOn /\ stored
                         THEN StoreSent(cache, m, remoteID[d]) ELSE cache
          /\ hookErr' = [hookErr EXCEPT ![d] = Null]
    /\ NextMessage(d)
    /\ UNCHANGED <<ctxDone, limit, msgs, sent, failed, remoteID, reason,
                   cacheOn, okSends, sendCalls, claimCount, schedVars>>

\* mutant: the hook writes on a context of its own, not on the tick's
OnFailedOwnContext(d) ==
    /\ pc[d] = "on_failed"
    /\ LET m == msgs[d][idx[d]] IN
       \/ /\ hookErr' = [hookErr EXCEPT ![d] = "mark failed failed"]
          /\ UNCHANGED messages
       \/ /\ messages' = MarkFailed(messages, m, reason[d])
          /\ hookErr' = [hookErr EXCEPT ![d] = Null]
    /\ NextMessage(d)
    /\ UNCHANGED <<ctxDone, limit, msgs, sent, failed, remoteID, reason,
                   now, cache, cacheOn, histVars, schedVars>>

\* mutant: ProcessBatch returns on the error of the onFailed hook
OnFailedAbortsOnError(d) ==
    /\ pc[d] = "on_failed"
    /\ LET m == msgs[d][idx[d]] IN
       \/ /\ hookErr' = [hookErr EXCEPT ![d] = "mark failed failed"]
          /\ pc' = [pc EXCEPT ![d] = "batch_done"]
          /\ resp' = [resp EXCEPT ![d] = NoResponse]
          /\ UNCHANGED <<messages, idx>>
       \/ /\ ~ctxDone[d]
          /\ messages' = MarkFailed(messages, m, reason[d])
          /\ hookErr' = [hookErr EXCEPT ![d] = Null]
          /\ NextMessage(d)
    /\ UNCHANGED <<ctxDone, limit, msgs, sent, failed, remoteID, reason,
                   now, cache, cacheOn, histVars, schedVars>>

\* the onFailed hook: MarkFailed
OnFailedMarkFailed(d) ==
    /\ pc[d] = "on_failed"
    /\ LET m == msgs[d][idx[d]] IN
       \/ \* MarkFailed fails: logged, the hook returns the error, which is dropped
          /\ hookErr' = [hookErr EXCEPT ![d] = "mark failed failed"]
          /\ UNCHANGED messages
       \/ /\ ~ctxDone[d]
          /\ messages' = MarkFailed(messages, m, reason[d])
          /\ hookErr' = [hookErr EXCEPT ![d] = Null]
    /\ NextMessage(d)
    /\ UNCHANGED <<ctxDone, limit, msgs, sent, failed, remoteID, reason,
                   now, cache, cacheOn, histVars, schedVars>>

\* the tick function logs and returns: after "no pending messages", or
\* after ProcessBatch has returned (sent, failed)
TickReturn(d) ==
    /\ pc[d] \in {"claim_empty", "batch_done"}
    /\ Returned(d)
    /\ UNCHANGED <<storeVars, histVars, schedVars>>

\* =============================================================== scheduler

\* New(): idle, no cancel func, a first done channel (channel 0)
SchedInit ==
    /\ running = FALSE
    /\ mu = 0
    /\ cancel = 0
    /\ done = 0
    /\ cancelled = {}
    /\ closed = {}
    /\ nStarts = 0
    /\ wpc = [w \in Workers |-> "none"]
    /\ wdone = [w \in Workers |-> 0]
    /\ ticks = 0
    /\ panicked = FALSE
    /\ stopAt = "none"
    /\ tickCtx = 0
    /\ cpc = [c \in Callers |-> "idle"]
    /\ ret = [c \in Callers |-> <<"none", FALSE>>]
    /\ lastOp = "none"
    /\ api = [c \in Callers |-> "none"]
    /\ body = <<"none", 0, FALSE>>

\* a goroutine that is not serving a request calls Start and reaches
\* s.mu.Lock()
CallStart(c) ==
    /\ cpc[c] = "idle"
    /\ api[c] = "none"
    /\ cpc' = [cpc EXCEPT ![c] = "start_lock"]
    /\ UNCHANGED <<running, mu, cancel, done, cancelled, closed, nStarts, wpc, wdone,
                   ticks, panicked, stopAt, tickCtx, ret, lastOp,
                   api, body, storeVars, tickVars, histVars>>

\* a goroutine that is not serving a request calls Stop and reaches
\* s.mu.Lock()
CallStop(c) ==
    /\ cpc[c] = "idle"
    /\ api[c] = "none"
    /\ cpc' = [cpc EXCEPT ![c] = "stop_lock"]
    /\ UNCHANGED <<running, mu, cancel, done, cancelled, closed, nStarts, wpc, wdone,
                   ticks, panicked, stopAt, tickCtx, ret, lastOp,
                   api, body, storeVars, tickVars, histVars>>

\* mutant: Start without the running check
NeverRunning == FALSE

\* if s.running.Load() { return false }
AlreadyRunning == running

\* mutant: the cancel func is dropped before the running check refuses
StartRefusedClobbers(c) ==
    /\ ret' = [ret EXCEPT ![c] = <<"Start", FALSE>>]
    /\ cpc' = [cpc EXCEPT ![c] = "idle"]
    /\ cancel' = 0
    /\ UNCHANGED <<running, mu, done, cancelled, closed, nStarts, wpc,
                   wdone, ticks, panicked, stopAt, tickCtx, lastOp>>

\* Start on a running scheduler: return false (lock and unlock around it)
StartRefused(c) ==
    /\ ret' = [ret EXCEPT ![c] = <<"Start", FALSE>>]
    /\ cpc' = [cpc EXCEPT ![c] = "idle"]
    /\ UNCHANGED <<running, mu, cancel, done, cancelled, closed, nStarts, wpc,
                   wdone, ticks, panicked, stopAt, tickCtx, lastOp>>

\* Start on an idle scheduler, up to the go statement. Worker, token and
\* channel of the k-th successful Start all carry the number k.
StartSpawn(c) ==
    /\ nStarts < MaxStarts
    /\ nStarts' = nStarts + 1
    /\ cancel' = nStarts + 1
    /\ done' = nStarts + 1
    /\ running' = TRUE
    /\ wpc' = [wpc EXCEPT ![nStarts + 1] = "spawned"]
    /\ ticks' = 0
    /\ panicked' = FALSE
    /\ stopAt' = "none"
    /\ mu' = c
    /\ cpc' = [cpc EXCEPT ![c] = "start_ret"]
    /\ UNCHANGED <<cancelled, closed, wdone, tickCtx, ret, lastOp>>

\* mutant: Start does not take s.mu
StartBodyNoLock(c) ==
    /\ cpc[c] = "start_lock"
    /\ IF AlreadyRunning THEN StartRefused(c) ELSE StartSpawn(c)
    /\ UNCHANGED <<api, body, storeVars, tickVars, histVars>>

\* Start, from the lock to the go statement
StartBody(c) ==
    /\ cpc[c] = "start_lock"
    /\ mu = 0
    /\ IF AlreadyRunning THEN StartRefused(c) ELSE StartSpawn(c)
    /\ UNCHANGED <<api, body, storeVars, tickVars, histVars>>

\* return true, with the deferred Unlock
StartReturn(c) ==
    /\ cpc[c] = "start_ret"
    /\ mu' = 0
    /\ ret' = [ret EXCEPT ![c] = <<"Start", TRUE>>]
    /\ lastOp' = "Start"
    /\ cpc' = [cpc EXCEPT ![c] = "idle"]
    /\ UNCHANGED <<running, cancel, done, cancelled, closed, nStarts, wpc, wdone,
                   ticks, panicked, stopAt, tickCtx, api, body, storeVars, tickVars, histVars>>

\* mutant: Stop clears the running flag before it waits for the worker
StopBodyClearsFlagFirst(c) ==
    /\ cpc[c] = "stop_lock"
    /\ mu = 0
    /\ IF ~running
       THEN /\ ret' = [ret EXCEPT ![c] = <<"Stop", FALSE>>]
            /\ cpc' = [cpc EXCEPT ![c] = "idle"]
            /\ UNCHANGED <<mu, cancelled, stopAt, running>>
       ELSE /\ cancelled' = cancelled \cup {cancel}
            /\ stopAt' = wpc[cancel]
            /\ running' = FALSE
            /\ mu' = c
            /\ cpc' = [cpc EXCEPT ![c] = "stop_wait"]
            /\ UNCHANGED ret
    /\ UNCHANGED <<cancel, done, closed, nStarts, wpc, wdone, ticks, panicked,
                   tickCtx, lastOp, api, body, storeVars, tickVars, histVars>>

\* Stop, from the lock to s.cancel()
StopBody(c) ==
    /\ cpc[c] = "stop_lock"
    /\ mu = 0
    /\ IF ~running
       THEN /\ ret' = [ret EXCEPT ![c] = <<"Stop", FALSE>>]
            /\ cpc' = [cpc EXCEPT ![c] = "idle"]
            /\ UNCHANGED <<mu, cancelled, stopAt>>
       ELSE /\ cancelled' = cancelled \cup {cancel}
            /\ stopAt' = wpc[cancel]
            /\ mu' = c
            /\ cpc' = [cpc EXCEPT ![c] = "stop_wait"]
            /\ UNCHANGED ret
    /\ UNCHANGED <<running, cancel, done, closed, nStarts, wpc, wdone, ticks, panicked,
                   tickCtx, lastOp, api, body, storeVars, tickVars, histVars>>

\* mutant: Stop does not wait for the worker
DoneNotAwaited == TRUE

\* <-s.done
DoneClosed == done \in closed

\* mutant: Stop forgets s.running.Store(false)
StopWaitNoStore(c) ==
    /\ cpc[c] = "stop_wait"
    /\ DoneClosed
    /\ cpc' = [cpc EXCEPT ![c] = "stop_ret"]
    /\ UNCHANGED <<running, mu, cancel, done, cancelled, closed, nStarts, wpc, wdone, ticks,
                   panicked, stopAt, tickCtx, ret, lastOp, api, body, storeVars, tickVars, histVars>>

\* Stop: the receive from s.done returns, s.running.Store(false)
StopWait(c) ==
    /\ cpc[c] = "stop_wait"
    /\ DoneClosed
    /\ running' = FALSE
    /\ cpc' = [cpc EXCEPT ![c] = "stop_ret"]
    /\ UNCHANGED <<mu, cancel, done, cancelled, closed, nStarts, wpc, wdone, ticks,
                   panicked, stopAt, tickCtx, ret, lastOp, api, body, storeVars, tickVars, histVars>>

\* return true, with the deferred Unlock
StopReturn(c) ==
    /\ cpc[c] = "stop_ret"
    /\ mu' = 0
    /\ ret' = [ret EXCEPT ![c] = <<"Stop", TRUE>>]
    /\ lastOp' = "Stop"
    /\ cpc' = [cpc EXCEPT ![c] = "idle"]
    /\ UNCHANGED <<running, cancel, done, cancelled, closed, nStarts, wpc, wdone,
                   ticks, panicked, stopAt, tickCtx, api, body, storeVars, tickVars, histVars>>

\* mutant: running derived from s.cancel != nil, which Stop never clears
IsRunningFromCancel == cancel # 0

\* IsRunning(): s.running.Load(), without the lock
IsRunning == running

\* mutant: the tick function is handed context.Background() (token 0)
TickTokenBackground(w) == 0

\* the ctx the goroutine's closure captured: the token made by the Start
\* that spawned worker w, which carries the same number
TickToken(w) == w

\* mutant: close(s.done) is not deferred, the channel is closed on entry
WorkerEnterClosesDone(w) ==
    /\ wpc[w] = "spawned"
    /\ wdone' = [wdone EXCEPT ![w] = done]
    /\ closed' = closed \cup {done}
    /\ wpc' = [wpc EXCEPT ![w] = "first"]
    /\ UNCHANGED <<running, mu, cancel, done, cancelled, nStarts, ticks,
                   panicked, stopAt, tickCtx, cpc, ret, lastOp, api, body, storeVars, tickVars, histVars>>

\* the worker goroutine starts: defer close(s.done) evaluates s.done, NewTicker
WorkerEnter(w) ==
    /\ wpc[w] = "spawned"
    /\ wdone' = [wdone EXCEPT ![w] = done]
    /\ wpc' = [wpc EXCEPT ![w] = "first"]
    /\ UNCHANGED <<running, mu, cancel, done, cancelled, closed, nStarts, ticks,
                   panicked, stopAt, tickCtx, cpc, ret, lastOp, api, body, storeVars, tickVars, histVars>>

\* mutant: no s.safeTick(ctx) before the loop, ticks come from the ticker only
WorkerTickBeginTimerOnly(w) ==
    /\ \/ /\ wpc[w] = "first"
          /\ wpc' = [wpc EXCEPT ![w] = "select"]
          /\ UNCHANGED <<ticks, tickCtx>>
       \/ /\ wpc[w] = "select"
          /\ ticks < MaxTicks
          /\ ticks' = ticks + 1
          /\ wpc' = [wpc EXCEPT ![w] = "tick"]
          /\ tickCtx' = TickToken(w)
    /\ UNCHANGED <<running, mu, cancel, done, cancelled, closed, nStarts, wdone,
                   panicked, stopAt, cpc, ret, lastOp, api, body, storeVars, tickVars, histVars>>

\* s.safeTick(ctx) is entered: the immediate tick, or the ticker case of the
\* select (which Go may choose even when ctx.Done() is ready too)
WorkerTickBegin(w) ==
    /\ wpc[w] \in {"first", "select"}
    /\ ticks < MaxTicks
    /\ ticks' = ticks + 1
    /\ wpc' = [wpc EXCEPT ![w] = "tick"]
    /\ tickCtx' = TickToken(w)
    /\ UNCHANGED <<running, mu, cancel, done, cancelled, closed, nStarts, wdone,
                   panicked, stopAt, cpc, ret, lastOp, api, body, storeVars, tickVars, histVars>>

\* mutant: safeTick without recover(): the panic unwinds the goroutine,
\* running its deferred close(s.done) on the way
WorkerTickEndNoRecover(w) ==
    /\ wpc[w] = "tick"
    /\ tickCtx' = 0
    /\ \E p \in BOOLEAN :
          /\ panicked' = (panicked \/ p)
          /\ wpc' = [wpc EXCEPT ![w] = IF p THEN "exited" ELSE "select"]
          /\ closed' = IF p THEN closed \cup {wdone[w]} ELSE closed
    /\ UNCHANGED <<running, mu, cancel, done, cancelled, nStarts, wdone,
                   ticks, stopAt, cpc, ret, lastOp, api, body, storeVars, tickVars, histVars>>

\* safeTick returns: tickFn returned, or panicked and the panic was recovered
WorkerTickEnd(w) ==
    /\ wpc[w] = "tick"
    /\ wpc' = [wpc EXCEPT ![w] = "select"]
    /\ \E p \in BOOLEAN : panicked' = (panicked \/ p)
    /\ tickCtx' = 0
    /\ UNCHANGED <<running, mu, cancel, done, cancelled, closed, nStarts, wdone,
                   ticks, stopAt, cpc, ret, lastOp, api, body, storeVars, tickVars, histVars>>

\* mutant: the ctx.Done() case closes done but does not leave the loop
WorkerExitKeepsLooping(w) ==
    /\ wpc[w] = "select"
    /\ w \in cancelled
    /\ wdone[w] \notin closed
    /\ closed' = closed \cup {wdone[w]}
    /\ UNCHANGED <<wpc, running, mu, cancel, done, cancelled, nStarts, wdone, ticks,
                   panicked, stopAt, tickCtx, cpc, ret, lastOp, api, body, storeVars, tickVars, histVars>>

\* case <-ctx.Done(): return, running the deferred ticker.Stop and close(done)
WorkerExit(w) ==
    /\ wpc[w] = "select"
    /\ w \in cancelled
    /\ closed' = closed \cup {wdone[w]}
    /\ wpc' = [wpc EXCEPT ![w] = "exited"]
    /\ UNCHANGED <<running, mu, cancel, done, cancelled, nStarts, wdone, ticks,
                   panicked, stopAt, tickCtx, cpc, ret, lastOp, api, body, storeVars, tickVars, histVars>>

\* ------------------------------------------- lifecycle calls from the tick

\* the mutex holder recorded while the tick function is inside a Stop
InTick == NumCallers + 1

\* the tick function calls s.Start() and reaches s.mu.Lock()
TickCallsStart(w) ==
    /\ wpc[w] = "tick"
    /\ wpc' = [wpc EXCEPT ![w] = "tick_start_lock"]
    /\ UNCHANGED <<running, mu, cancel, done, cancelled, closed, nStarts, wdone, ticks,
                   panicked, stopAt, tickCtx, cpc, ret, lastOp, api, body,
                   storeVars, tickVars, histVars>>

\* Start called by the tick function, from Lock to the deferred Unlock: it
\* never blocks once it holds the mutex
TickStart(w) ==
    /\ wpc[w] = "tick_start_lock"
    /\ mu = 0
    /\ IF AlreadyRunning
       THEN /\ wpc' = [wpc EXCEPT ![w] = "tick"]
            /\ UNCHANGED <<running, cancel, done, nStarts, ticks, panicked, stopAt, lastOp>>
       ELSE /\ nStarts < MaxStarts
            /\ nStarts' = nStarts + 1
            /\ cancel' = nStarts + 1
            /\ done' = nStarts + 1
            /\ running' = TRUE
            /\ wpc' = [wpc EXCEPT ![nStarts + 1] = "spawned", ![w] = "tick"]
            /\ ticks' = 0
            /\ panicked' = FALSE
            /\ stopAt' = "none"
            /\ lastOp' = "Start"
    /\ UNCHANGED <<mu, cancelled, closed, wdone, tickCtx, cpc, ret, api, body,
                   storeVars, tickVars, histVars>>

\* the tick function calls s.Stop() and reaches s.mu.Lock()
TickCallsStop(w) ==
    /\ wpc[w] = "tick"
    /\ wpc' = [wpc EXCEPT ![w] = "tick_stop_lock"]
    /\ UNCHANGED <<running, mu, cancel, done, cancelled, closed, nStarts, wdone, ticks,
                   panicked, stopAt, tickCtx, cpc, ret, lastOp, api, body,
                   storeVars, tickVars, histVars>>

\* Stop called by the tick function: at the lock it takes the mutex, returns
\* false when not running, and otherwise calls s.cancel() and goes on to
\* <-s.done; at the receive it waits for the channel to be closed, then
\* stores false and unlocks
TickStop(w) ==
    /\ wpc[w] \in {"tick_stop_lock", "tick_stop_wait"}
    /\ IF wpc[w] = "tick_stop_lock"
       THEN /\ mu = 0
            /\ IF ~running
               THEN /\ wpc' = [wpc EXCEPT ![w] = "tick"]
                    /\ UNCHANGED <<mu, cancelled, stopAt>>
               ELSE /\ cancelled' = cancelled \cup {cancel}
                    /\ stopAt' = wpc[cancel]
                    /\ mu' = InTick
                    /\ wpc' = [wpc EXCEPT ![w] = "tick_stop_wait"]
            /\ UNCHANGED <<running, lastOp>>
       ELSE /\ DoneClosed
            /\ running' = FALSE
            /\ mu' = 0
            /\ lastOp' = "Stop"
            /\ wpc' = [wpc EXCEPT ![w] = "tick"]
            /\ UNCHANGED <<cancelled, stopAt>>
    /\ UNCHANGED <<cancel, done, closed, nStarts, wdone, ticks, panicked, tickCtx,
                   cpc, ret, api, body, storeVars, tickVars, histVars>>

\* ------------------------------------------------------------ control API

\* POST /v1/scheduler/start is served by goroutine c: h.sched.Start() is called
SchedulerStart(c) ==
    /\ cpc[c] = "idle"
    /\ api[c] = "none"
    /\ api' = [api EXCEPT ![c] = "start"]
    /\ cpc' = [cpc EXCEPT ![c] = "start_lock"]
    /\ UNCHANGED <<running, mu, cancel, done, cancelled, closed, nStarts, wpc, wdone,
                   ticks, panicked, stopAt, tickCtx, ret, lastOp, body,
                   storeVars, tickVars, histVars>>

\* POST /v1/scheduler/stop is served by goroutine c: h.sched.Stop() is called
SchedulerStop(c) ==
    /\ cpc[c] = "idle"
    /\ api[c] = "none"
    /\ api' = [api EXCEPT ![c] = "stop"]
    /\ cpc' = [cpc EXCEPT ![c] = "stop_lock"]
    /\ UNCHANGED <<running, mu, cancel, done, cancelled, closed, nStarts, wpc, wdone,
                   ticks, panicked, stopAt, tickCtx, ret, lastOp, body,
                   storeVars, tickVars, histVars>>

\* the call has returned: writeJSON(w, http.StatusOK, {"running": h.sched.IsRunning()})
WriteResponse(c) ==
    /\ cpc[c] = "idle"
    /\ api[c] # "none"
    /\ body' = <<api[c], 200, IsRunning>>
    /\ api' = [api EXCEPT ![c] = "none"]
    /\ UNCHANGED <<running, mu, cancel, done, cancelled, closed, nStarts, wpc, wdone,
                   ticks, panicked, stopAt, tickCtx, cpc, ret, lastOp,
                   storeVars, tickVars, histVars>>

Init == StoreInit /\ SchedInit

Next ==
    \/ InsertMessage
    \/ \E d \in Dispatchers : TickBegin(d)
    \/ \E d \in Dispatchers : CancelCtx(d)
    \/ \E d \in Dispatchers : ClaimSelect(d, limit[d])
    \/ \E d \in Dispatchers : ClaimCommit(d)
    \/ \E d \in Dispatchers : ProcessSend(d)
    \/ \E d \in Dispatchers : OnSent(d)
    \/ \E d \in Dispatchers : OnFailedMarkFailed(d)
    \/ \E d \in Dispatchers : TickReturn(d)

Spec == Init /\ [][Next]_vars

\* a caller of ClaimPending other than the tick function has its rows
ClaimDone(d) ==
    /\ pc[d] = "batch"
    /\ Returned(d)
    /\ UNCHANGED <<storeVars, histVars, schedVars>>

\* the repository under concurrent ClaimPending calls with any limit
ClaimNext ==
    \/ InsertMessage
    \/ \E d \in Dispatchers : \E lim \in Limits : BeginClaim(d, lim)
    \/ \E d \in Dispatchers : CancelCtx(d)
    \/ \E d \in Dispatchers : ClaimSelect(d, limit[d])
    \/ \E d \in Dispatchers : ClaimCommit(d)
    \/ \E d \in Dispatchers : TickReturn(d)
    \/ \E d \in Dispatchers : ClaimDone(d)

ClaimSpec == Init /\ [][ClaimNext]_vars

\* MarkSent(ctx, id, remoteMessageID) is called on the repository, for any
\* row and with any remote id the column can hold, and succeeds
CallMarkSent(id, remote) ==
    /\ id \in 1..Len(messages)
    /\ markSentCount[id] < MaxMarkSent
    /\ \E t \in Clock :
          /\ messages' = MarkSent(messages, id, remote, t)
          /\ now' = t
    /\ markSentCount' = [markSentCount EXCEPT ![id] = @ + 1]
    /\ UNCHANGED <<cache, cacheOn, okSends, sendCalls, claimCount, tickVars, schedVars>>

\* the repository with MarkSent called directly, any number of times per row
RepoNext ==
    \/ InsertMessage
    \/ \E id \in RowIds : \E remote \in UUIDs : CallMarkSent(id, remote)

RepoSpec == Init /\ [][RepoNext]_vars

\* the values SCHED_BATCH_SIZE may be given: validation wants it > 0
BatchSizes == 1..BatchSize

\* the process whose ticks ConfigSpec follows
Proc == 1

\* a process is configured with a cache or without one
ConfigInit == EmptyStore /\ cacheOn \in BOOLEAN /\ SchedInit

\* the ticks of one process under any valid configuration (cache or none,
\* any batch size) and a webhook answering in any way
ConfigNext ==
    \/ InsertMessage
    \/ \E lim \in BatchSizes : BeginClaim(Proc, lim)
    \/ CancelCtx(Proc)
    \/ ClaimSelect(Proc, limit[Proc])
    \/ ClaimCommit(Proc)
    \/ ProcessMessage(Proc, AllResponses)
    \/ OnSent(Proc)
    \/ OnFailedMarkFailed(Proc)
    \/ TickReturn(Proc)

ConfigSpec == ConfigInit /\ [][ConfigNext]_vars

\* a step of the tick of the process in which no call fails: the worker's
\* token is live (the scheduler stays running), ClaimPending returns rows or
\* none, Send returns an id (one MarkSent can store), MarkSent succeeds and,
\* with a cache configured, so does StoreSent. MarkFailed may fail.
PickupTick ==
    \/ \E lim \in BatchSizes : BeginClaim(Proc, lim) /\ ~ctxDone'[Proc]
    \/ ClaimSelect(Proc, limit[Proc]) /\ pc'[Proc] # "idle"
    \/ ClaimCommit(Proc) /\ pc'[Proc] = "batch"
    \/ /\ ProcessSend(Proc)
       /\ pc'[Proc] = "on_failed" => TooLong(messages, msgs[Proc][idx[Proc]])
       /\ pc'[Proc] = "on_sent" => IsUUID(remoteID'[Proc])
    \/ /\ OnSent(Proc)
       /\ hookErr'[Proc] = Null
       /\ cacheOn => cache'[msgs[Proc][idx[Proc]]] # Null
    \/ OnFailedMarkFailed(Proc)
    \/ TickReturn(Proc)

PickupNext == InsertMessage \/ PickupTick

\* the ticker keeps firing while the scheduler runs and every call of the
\* tick returns: the tick always takes its next step
PickupSpec == ConfigInit /\ [][PickupNext]_vars /\ WF_vars(PickupTick)

SchedNext ==
    \/ \E c \in Callers : CallStart(c)
    \/ \E c \in Callers : CallStop(c)
    \/ \E c \in Callers : StartBody(c)
    \/ \E c \in Callers : StartReturn(c)
    \/ \E c \in Callers : StopBody(c)
    \/ \E c \in Callers : StopWait(c)
    \/ \E c \in Callers : StopReturn(c)
    \/ \E w \in Workers : WorkerEnter(w)
    \/ \E w \in Workers : WorkerTickBegin(w)
    \/ \E w \in Workers : WorkerTickEnd(w)
    \/ \E w \in Workers : WorkerExit(w)

SchedSpec == Init /\ [][SchedNext]_vars

\* the Scheduler driven through the control API: every Start and Stop is
\* the call of a request handler, requests being served concurrently
ApiNext ==
    \/ \E c \in Callers : SchedulerStart(c)
    \/ \E c \in Callers : SchedulerStop(c)
    \/ \E c \in Callers : WriteResponse(c)
    \/ \E c \in Callers : StartBody(c)
    \/ \E c \in Callers : StartReturn(c)
    \/ \E c \in Callers : StopBody(c)
    \/ \E c \in Callers : StopWait(c)
    \/ \E c \in Callers : StopReturn(c)
    \/ \E w \in Workers : WorkerEnter(w)
    \/ \E w \in Workers : WorkerTickBegin(w)
    \/ \E w \in Workers : WorkerTickEnd(w)
    \/ \E w \in Workers : WorkerExit(w)

ApiSpec == Init /\ [][ApiNext]_vars

\* the goroutines calling Start and Stop in the runs checked for progress
FairCallers == {1, 2}

\* the immediate tick of worker w: s.safeTick(ctx) before the loop
ImmediateTick(w) == wpc[w] = "first" /\ WorkerTickBegin(w)

\* What the Go runtime guarantees the scheduler's goroutines: a runnable
\* goroutine is scheduled (the worker enters, makes its immediate tick,
\* leaves the select once ctx.Done() is ready) and a receive from a closed
\* channel returns (Stop's <-s.done). The tick function is taken to return.
\* Nothing makes the ticker fire, and nothing makes a caller call.
SchedFairness ==
    /\ \A w \in Workers :
          /\ WF_vars(WorkerEnter(w))
          /\ WF_vars(ImmediateTick(w))
          /\ WF_vars(WorkerTickEnd(w))
          /\ WF_vars(WorkerExit(w))
    /\ \A c \in FairCallers : WF_vars(StopWait(c))

\* the steps of SchedNext with two goroutines calling Start and Stop
SchedFairNext ==
    \/ \E c \in FairCallers : CallStart(c)
    \/ \E c \in FairCallers : CallStop(c)
    \/ \E c \in FairCallers : StartBody(c)
    \/ \E c \in FairCallers : StartReturn(c)
    \/ \E c \in FairCallers : StopBody(c)
    \/ \E c \in FairCallers : StopWait(c)
    \/ \E c \in FairCallers : StopReturn(c)
    \/ \E w \in Workers : WorkerEnter(w)
    \/ \E w \in Workers : WorkerTickBegin(w)
    \/ \E w \in Workers : WorkerTickEnd(w)
    \/ \E w \in Workers : WorkerExit(w)

SchedFairSpec == Init /\ [][SchedFairNext]_vars /\ SchedFairness

\* The Scheduler with a tick function that may itself call Start and Stop.
\* Beyond SchedFairness: a goroutine blocked in Lock gets the mutex if it is
\* free again and again (sync.Mutex hands over to starving waiters), a call
\* that holds the mutex runs to its Unlock, and the tick function returns
\* once it is not inside a call.
ReentrantFairness ==
    /\ \A w \in Workers :
          /\ WF_vars(WorkerEnter(w))
          /\ WF_vars(ImmediateTick(w))
          /\ SF_vars(WorkerTickEnd(w))
          /\ WF_vars(WorkerExit(w))
          /\ SF_vars(TickStart(w))
          /\ SF_vars(TickStop(w))
    /\ \A c \in FairCallers :
          /\ SF_vars(StartBody(c))
          /\ WF_vars(StartReturn(c))
          /\ SF_vars(StopBody(c))
          /\ WF_vars(StopWait(c))
          /\ WF_vars(StopReturn(c))

ReentrantNext ==
    \/ SchedFairNext
    \/ \E w \in Workers : TickCallsStart(w)
    \/ \E w \in Workers : TickStart(w)
    \/ \E w \in Workers : TickCallsStop(w)
    \/ \E w \in Workers : TickStop(w)

ReentrantSpec == Init /\ [][ReentrantNext]_vars /\ ReentrantFairness

\* ---------------------------------------------------- process and shutdown

\* the main goroutine, and the goroutines serving requests
Main == 1
Handlers == Callers \ {Main}

\* main: sched.Start() before the HTTP server is built
MainStart ==
    /\ ret[Main] = <<"none", FALSE>>
    /\ CallStart(Main)

\* the server is listening: main's Start has returned and srv.Shutdown has
\* not been called
Serving == ret[Main] # <<"none", FALSE>> /\ api[Main] \in {"none", "shutdown"}

\* runWithGracefulShutdown: the signal context is done, sched.Stop() is called
ShutdownStop ==
    /\ ret[Main] # <<"none", FALSE>>
    /\ cpc[Main] = "idle"
    /\ api[Main] = "none"
    /\ api' = [api EXCEPT ![Main] = "shutdown"]
    /\ cpc' = [cpc EXCEPT ![Main] = "stop_lock"]
    /\ UNCHANGED <<running, mu, cancel, done, cancelled, closed, nStarts, wpc, wdone,
                   ticks, panicked, stopAt, tickCtx, ret, lastOp, body,
                   storeVars, tickVars, histVars>>

\* sched.Stop() has returned: srv.Shutdown(shutdownCtx) closes the listeners;
\* requests being served go on
ServerShutdown ==
    /\ api[Main] = "shutdown"
    /\ cpc[Main] = "idle"
    /\ api' = [api EXCEPT ![Main] = "closed"]
    /\ UNCHANGED <<running, mu, cancel, done, cancelled, closed, nStarts, wpc, wdone,
                   ticks, panicked, stopAt, tickCtx, cpc, ret, lastOp, body,
                   storeVars, tickVars, histVars>>

\* srv.Shutdown returns (no request is being served, or the 10 s are over),
\* runWithGracefulShutdown and main return: the process exits
ProcessExit ==
    /\ api[Main] = "closed"
    /\ api' = [api EXCEPT ![Main] = "exited"]
    /\ UNCHANGED <<running, mu, cancel, done, cancelled, closed, nStarts, wpc, wdone,
                   ticks, panicked, stopAt, tickCtx, cpc, ret, lastOp, body,
                   storeVars, tickVars, histVars>>

\* the process from main's sched.Start() to its exit, requests being served
\* while the server listens
\* the process has not exited
Up == api[Main] # "exited"

ShutdownNext ==
    \/ Up /\ MainStart
    \/ Up /\ ShutdownStop
    \/ Up /\ ServerShutdown
    \/ Up /\ ProcessExit
    \/ \E c \in Handlers : Up /\ Serving /\ SchedulerStart(c)
    \/ \E c \in Handlers : Up /\ Serving /\ SchedulerStop(c)
    \/ \E c \in Handlers : Up /\ WriteResponse(c)
    \/ \E c \in Callers : Up /\ StartBody(c)
    \/ \E c \in Callers : Up /\ StartReturn(c)
    \/ \E c \in Callers : Up /\ StopBody(c)
    \/ \E c \in Callers : Up /\ StopWait(c)
    \/ \E c \in Callers : Up /\ StopReturn(c)
    \/ \E w \in Workers : Up /\ WorkerEnter(w)
    \/ \E w \in Workers : Up /\ WorkerTickBegin(w)
    \/ \E w \in Workers : Up /\ WorkerTickEnd(w)
    \/ \E w \in Workers : Up /\ WorkerExit(w)

ShutdownSpec == Init /\ [][ShutdownNext]_vars

\* ================================================================== claims

Rows == 1..Len(messages)
Status(id) == messages[id].status
AllIdle == \A d \in Dispatchers : pc[d] = "idle"

\* C1: at most once per row. No row has more than one successful Send, and
\* whenever ProcessBatch is about to call Send for a row, that row is not sent.
C1_AtMostOnce ==
    /\ \A id \in Rows : Len(okSends[id]) <= 1
    /\ \A d \in Dispatchers :
           pc[d] = "batch" => Status(msgs[d][idx[d]]) # "sent"

\* both dispatchers are inside a tick and each has just sent a row successfully
C1_Witness ==
    /\ pc[1] = "on_sent" /\ pc[2] = "on_sent"
    /\ \A id \in {1, 2} : Len(okSends[id]) = 1

\* C2: the id sets of two ClaimPending transactions that are open or have
\* returned their rows to a tick in progress are disjoint, no returned
\* sequence repeats an id, and no id is returned by two calls ever.
C2_ClaimsDisjoint ==
    /\ \A d1, d2 \in Dispatchers :
           d1 # d2 => Range(msgs[d1]) \cap Range(msgs[d2]) = {}
    /\ \A d \in Dispatchers : \A i, j \in 1..Len(msgs[d]) : i # j => msgs[d][i] # msgs[d][j]
    /\ \A id \in RowIds : claimCount[id] <= 1

\* two claim transactions are open at the same time, each holding a row
C2_Witness ==
    /\ pc[1] = "claim_tx" /\ pc[2] = "claim_tx"
    /\ msgs[1] # <<>> /\ msgs[2] # <<>>

\* C3: a row that is sent stays sent in every step (and stays in the table).
C3_SentIsTerminal ==
    [][\A id \in Rows :
          Status(id) = "sent" => id <= Len(messages') /\ messages'[id].status = "sent"]_vars

\* a row is sent while a later claim has returned the other row and its
\* MarkFailed is about to run
C3_Witness ==
    \E id \in Rows : \E d \in Dispatchers :
        /\ Status(id) = "sent"
        /\ pc[d] = "on_failed"
        /\ claimCount[msgs[d][idx[d]]] = 1

\* C4: a sent row has sent_at and remote_message_id, and sent_at >= created_at.
C4_SentRowPopulated ==
    \A id \in Rows :
        Status(id) = "sent" =>
            /\ messages[id].sent_at # NullTime
            /\ messages[id].remote_message_id # Null
            /\ messages[id].sent_at >= messages[id].created_at

\* a row was sent strictly after it was created
C4_Witness ==
    \E id \in Rows :
        Status(id) = "sent" /\ messages[id].sent_at > messages[id].created_at

\* C5: a failed row has last_error and attempt_count >= 1.
C5_FailedRowPopulated ==
    \A id \in Rows :
        Status(id) = "failed" =>
            messages[id].last_error # Null /\ messages[id].attempt_count >= 1

\* one row failed on the length check, another on the webhook's answer
C5_Witness ==
    \E a, b \in Rows :
        /\ Status(a) = "failed" /\ messages[a].last_error = "content exceeds 3 chars"
        /\ Status(b) = "failed" /\ messages[b].last_error = "unexpected status code"

\* C6 as claimed: once no tick is in progress, the successful Sends and the
\* sent rows are in one-to-one correspondence, remote ids included.
C6_SendsEqualSentRows ==
    AllIdle =>
        \A id \in Rows :
            /\ Len(okSends[id]) = (IF Status(id) = "sent" THEN 1 ELSE 0)
            /\ Status(id) = "sent" => messages[id].remote_message_id = okSends[id][1]

\* C6 as amended: every sent row has exactly one successful Send and carries
\* the remote id it returned; a successful Send belongs to at most one Send
\* per row, and its row is sent or, when MarkSent did not succeed, processing.
C6_SentRowsHaveOneSend ==
    \A id \in Rows :
        /\ Len(okSends[id]) <= 1
        /\ Status(id) = "sent" =>
               Len(okSends[id]) = 1 /\ messages[id].remote_message_id = okSends[id][1]
        /\ Len(okSends[id]) = 1 => Status(id) \in {"sent", "processing"}

\* two rows were sent successfully by racing dispatchers: one is sent, the
\* MarkSent of the other failed
C6_Witness ==
    /\ AllIdle
    /\ \E a, b \in Rows :
          /\ Status(a) = "sent" /\ Len(okSends[a]) = 1
          /\ Status(b) = "processing" /\ Len(okSends[b]) = 1

\* the message ProcessBatch is at, and the messages it is done with
Current(d) == msgs[d][idx[d]]
DoneWith(d) ==
    IF pc[d] \in {"batch", "on_sent", "on_failed", "batch_done"}
    THEN {msgs[d][i] : i \in 1..(idx[d] - 1)} ELSE {}
SendSucceeded(id) == okSends[id] # <<>>
SendErrors ==
    {"context canceled", "unexpected status code", "failed to decode json",
     "missing messageId in response"}

\* C16: one hook per message, chosen by the outcome of Send. onSent runs
\* for a message exactly when its Send succeeded, with the remote id Send
\* returned; onFailed runs exactly when the message was not sent
\* successfully, with the length reason or the error text of Send; the two
\* counters count the messages of either kind among those handled so far.
C16_OneHookPerOutcome ==
    \A d \in Dispatchers :
        /\ pc[d] = "on_sent" =>
              /\ SendSucceeded(Current(d))
              /\ sendCalls[Current(d)] = 1
              /\ remoteID[d] = okSends[Current(d)][1]
        /\ pc[d] = "on_failed" =>
              /\ ~SendSucceeded(Current(d))
              /\ IF sendCalls[Current(d)] = 0
                 THEN reason[d] = LengthReason
                 ELSE sendCalls[Current(d)] = 1 /\ reason[d] \in SendErrors
        /\ pc[d] \in {"batch", "on_sent", "on_failed", "batch_done"} =>
              LET handled == DoneWith(d) \cup
                             (IF pc[d] \in {"on_sent", "on_failed"}
                              THEN {Current(d)} ELSE {})
              IN  /\ sent[d] = Cardinality({id \in handled : SendSucceeded(id)})
                  /\ failed[d] = Cardinality({id \in handled : ~SendSucceeded(id)})

\* a batch of two is finished: one Send succeeded, the other returned an
\* error, and the counters are (1, 1)
C16_Witness ==
    \E d \in Dispatchers :
        /\ pc[d] = "batch_done"
        /\ Len(msgs[d]) = 2
        /\ sent[d] = 1 /\ failed[d] = 1
        /\ \E id \in Range(msgs[d]) : sendCalls[id] = 1 /\ ~SendSucceeded(id)

\* C17: a row longer than ContentMax is never passed to Send and is never
\* sent, and once recorded as failed it carries the reason built from
\* ContentMax and attempt_count 1; a row of ContentMax code points or fewer
\* passes the length check: once ProcessBatch has handled it, it has been
\* passed to Send once, and it never carries the length reason.
C17_LengthBoundary ==
    /\ \A id \in Rows :
          IF messages[id].content > ContentMax
          THEN /\ sendCalls[id] = 0
               /\ Status(id) # "sent"
               /\ Status(id) = "failed" =>
                      /\ messages[id].last_error = LengthReason
                      /\ messages[id].attempt_count = 1
          ELSE messages[id].last_error # LengthReason
    /\ \A d \in Dispatchers :
          /\ \A id \in DoneWith(d) :
                 messages[id].content <= ContentMax => sendCalls[id] = 1
          /\ pc[d] \in {"on_sent", "on_failed"} =>
                 IF messages[Current(d)].content > ContentMax
                 THEN pc[d] = "on_failed" /\ reason[d] = LengthReason
                 ELSE sendCalls[Current(d)] = 1

\* a row of ContentMax + 1 code points is failed without a Send, and a row
\* of exactly ContentMax code points is sent
C17_Witness ==
    \E a, b \in Rows :
        /\ messages[a].content = ContentMax + 1
        /\ Status(a) = "failed" /\ messages[a].attempt_count = 1 /\ sendCalls[a] = 0
        /\ messages[b].content = ContentMax
        /\ Status(b) = "sent" /\ sendCalls[b] = 1

\* C18: whatever a hook does, ProcessBatch goes on to the next message of
\* the same batch, or is done after the last one; and every message it
\* comes to is handled and reported through a hook.
C18_HookErrorDoesNotAbort ==
    [][\A d \in Dispatchers :
        /\ (pc[d] \in {"on_sent", "on_failed"} /\ pc'[d] # pc[d]) =>
              /\ msgs'[d] = msgs[d]
              /\ idx'[d] = idx[d] + 1
              /\ pc'[d] = IF idx[d] < Len(msgs[d]) THEN "batch" ELSE "batch_done"
        /\ (pc[d] = "batch" /\ pc'[d] # "batch") =>
              /\ idx[d] \in 1..Len(msgs[d])
              /\ pc'[d] \in {"on_sent", "on_failed"}
              /\ msgs'[d] = msgs[d] /\ idx'[d] = idx[d]]_vars

\* the onSent hook of the first message failed (its row is still
\* processing after a successful Send) and the second message of the batch
\* has been sent and is in its own hook
C18_Witness ==
    \E d \in Dispatchers :
        /\ pc[d] = "on_sent"
        /\ idx[d] = 2
        /\ SendSucceeded(msgs[d][1])
        /\ Status(msgs[d][1]) = "processing"

\* ------------------------------------------------------------ ClaimPending

\* exactly the rows ids move from pending to processing in this step
MovedToProcessing(ids) ==
    /\ Len(messages') = Len(messages)
    /\ \A id \in Rows :
          IF id \in Range(ids)
          THEN /\ messages[id].status = "pending"
               /\ messages'[id] = [messages[id] EXCEPT !.status = "processing"]
          ELSE messages'[id] = messages[id]

\* what holds of every ClaimPending call whatever its commit does
ClaimSteps(d) ==
    /\ (pc[d] = "claim" /\ pc'[d] # "claim") =>
          /\ messages' = messages
          /\ (limit[d] <= 0 \/ ctxDone[d]) => pc'[d] = "idle"
    /\ (pc[d] = "claim_tx" /\ pc'[d] = "batch") =>
          /\ msgs'[d] = msgs[d]
          /\ MovedToProcessing(msgs[d])

\* C19 as claimed: a call that returns an error, the commit's included,
\* leaves the table as it was; a call that returns rows has moved exactly
\* those rows from pending to processing.
C19_ErrorLeavesRowsUnchanged ==
    [][\A d \in Dispatchers :
        /\ ClaimSteps(d)
        /\ (pc[d] = "claim_tx" /\ pc'[d] = "idle") => messages' = messages]_vars

\* C19 as amended: a call that returns rows has moved exactly those rows
\* from pending to processing; an error for limit <= 0, a cancelled context
\* or a failed query leaves the table as it was; an error from the update
\* and commit phase leaves either the table as it was or, when the server
\* had committed before the error was reported, exactly the selected rows
\* moved to processing - never a part of them.
C19_ClaimIsAtomic ==
    [][\A d \in Dispatchers :
        /\ ClaimSteps(d)
        /\ (pc[d] = "claim_tx" /\ pc'[d] = "idle") =>
              \/ messages' = messages
              \/ ~ctxDone[d] /\ MovedToProcessing(msgs[d])]_vars

\* one call has returned its row, and another call's commit took effect
\* although it returned an error: its row is processing and was returned
\* to nobody
C19_Witness ==
    \E a, b \in Rows :
        /\ Status(a) = "processing" /\ claimCount[a] = 1
        /\ Status(b) = "processing" /\ claimCount[b] = 0

\* the rows the query of d can select, oldest first, ties by id
Eligible == {id \in Rows : Status(id) = "pending" /\ id \notin Locked}
Older(a, b) ==
    \/ messages[a].created_at < messages[b].created_at
    \/ messages[a].created_at = messages[b].created_at /\ a < b
Min(a, b) == IF a < b THEN a ELSE b

\* C20 as claimed: the query returns the Min(limit, number of eligible rows)
\* oldest pending unlocked rows, ordered by created_at and then id; it
\* returns an empty result, without error, only when no row is eligible.
C20_OldestFirstTiesById ==
    [][\A d \in Dispatchers :
        /\ (pc[d] = "claim" /\ pc'[d] = "claim_tx") =>
              LET s == msgs'[d] IN
              /\ Len(s) = Min(limit[d], Cardinality(Eligible))
              /\ \A i \in 1..Len(s) : s[i] \in Eligible
              /\ \A i, j \in 1..Len(s) : i < j => Older(s[i], s[j])
              /\ \A i \in 1..Len(s) : \A r \in Eligible \ Range(s) : Older(s[i], r)
        /\ (pc[d] = "claim" /\ pc'[d] = "claim_empty") => Eligible = {}
        /\ (pc[d] = "claim_tx" /\ pc'[d] = "batch") => msgs'[d] = msgs[d]]_vars

\* -------------------------------------------------------------- scheduler

Alive(w) == wpc[w] \notin {"none", "exited"}
Ticking(w) == wpc[w] = "tick"
\* the fields of the Scheduler and its goroutines
lifecycle == <<running, cancel, done, cancelled, closed, nStarts, wpc, wdone>>

\* the last lifecycle call that returned true is a Stop, and no later Start
\* has taken effect (a Start that has spawned its worker and not yet
\* returned counts as the subsequent Start)
StoppedWindow == lastOp = "Stop" /\ \A c \in Callers : cpc[c] # "start_ret"

\* C7: after a Stop that returned true, and until the next successful Start,
\* no tick invocation is in progress (so none begins either).
C7_NoTickAfterStop == StoppedWindow => \A w \in Workers : ~Ticking(w)

\* Start, Stop, Start, Stop have all returned true, and the second run made
\* its immediate tick and a timer tick
C7_Witness ==
    /\ StoppedWindow
    /\ nStarts = 2
    /\ ticks = 2

\* C8: at most one invocation of the tick function is in progress.
C8_TicksNeverOverlap == Cardinality({w \in Workers : Ticking(w)}) <= 1

\* the worker of a second run is inside its second tick, the first run's
\* worker has exited, and a Stop is waiting for the tick to finish
C8_Witness ==
    /\ wpc[1] = "exited"
    /\ Ticking(2) /\ ticks = 2
    /\ \E c \in Callers : cpc[c] = "stop_wait"

\* C9: a Start that finds the scheduler idle spawns exactly one worker, which
\* is then the only live one, sets running and returns true; a Start that
\* finds it running returns false and changes no field of the scheduler.
C9_Start ==
    [][\A c \in Callers :
        /\ (cpc[c] = "start_lock" /\ cpc'[c] # "start_lock") =>
              IF running
              THEN /\ ret'[c] = <<"Start", FALSE>>
                   /\ cpc'[c] = "idle"
                   /\ UNCHANGED lifecycle
              ELSE /\ cpc'[c] = "start_ret"
                   /\ running'
                   /\ \E w \in Workers :
                         /\ wpc[w] = "none"
                         /\ wpc' = [wpc EXCEPT ![w] = "spawned"]
                         /\ \A v \in Workers : Alive(v)' <=> v = w
        /\ (cpc[c] = "start_ret" /\ cpc'[c] # "start_ret") =>
              ret'[c] = <<"Start", TRUE>> /\ running']_vars

\* Start; Start returned (true, false) and the scheduler is running
C9_Witness ==
    /\ ret[1] = <<"Start", TRUE>>
    /\ ret[2] = <<"Start", FALSE>>
    /\ running
    /\ Cardinality({w \in Workers : Alive(w)}) = 1

\* C10: a Stop that finds the scheduler running waits and returns true with
\* the scheduler idle; a Stop that finds it idle returns false and changes
\* no field of the scheduler.
C10_Stop ==
    [][\A c \in Callers :
        /\ (cpc[c] = "stop_lock" /\ cpc'[c] # "stop_lock") =>
              IF running
              THEN cpc'[c] = "stop_wait"
              ELSE /\ ret'[c] = <<"Stop", FALSE>>
                   /\ cpc'[c] = "idle"
                   /\ UNCHANGED lifecycle
        /\ (cpc[c] = "stop_wait" /\ cpc'[c] # "stop_wait") => cpc'[c] = "stop_ret"
        /\ (cpc[c] = "stop_ret" /\ cpc'[c] # "stop_ret") =>
              /\ ret'[c] = <<"Stop", TRUE>>
              /\ ~running'
              /\ \A w \in Workers : ~Alive(w)']_vars

\* Stop; Stop returned (true, false) on a scheduler that had been started
C10_Witness ==
    /\ ret[1] = <<"Stop", TRUE>>
    /\ ret[2] = <<"Stop", FALSE>>
    /\ ~running
    /\ nStarts >= 1

\* C11: when a Stop is at its return (and after it has returned, until the
\* next Start takes effect) the worker spawned by the preceding Start has
\* exited, no worker is alive, no tick is in progress and the scheduler is
\* idle, wherever the worker was when Stop cancelled it.
C11_StartStopLeavesNoWorker ==
    /\ \A c \in Callers :
          cpc[c] = "stop_ret" =>
              /\ stopAt \in {"spawned", "first", "tick", "select"}
              /\ wpc[nStarts] = "exited"
              /\ \A w \in Workers : ~Alive(w)
              /\ tickCtx = 0
              /\ ~running
    /\ StoppedWindow => (~running /\ \A w \in Workers : ~Alive(w))

\* Start; Stop both returned true, Stop having cancelled the worker before
\* the goroutine was scheduled at all: the worker has run and exited
C11_Witness ==
    /\ nStarts = 1
    /\ lastOp = "Stop"
    /\ \E c \in Callers : ret[c] = <<"Stop", TRUE>>
    /\ stopAt = "spawned"
    /\ wpc[1] = "exited"
    /\ ~running

\* C12: IsRunning() is true from the return of a successful Start until the
\* next successful Stop takes effect, and false from construction or the
\* return of a successful Stop until the next successful Start takes effect.
\* (A call takes effect inside the call: Start at its go statement, Stop at
\* its running.Store(false); both are at their return statement then.)
C12_IsRunningReflectsLastOp ==
    /\ (lastOp = "Start" /\ \A c \in Callers : cpc[c] # "stop_ret") => IsRunning
    /\ (lastOp \in {"none", "Stop"} /\ \A c \in Callers : cpc[c] # "start_ret")
           => ~IsRunning

\* Start, Stop, Start have returned true and nobody is inside a call:
\* IsRunning() is true again
C12_Witness ==
    /\ nStarts = 2
    /\ lastOp = "Start"
    /\ \A c \in Callers : cpc[c] = "idle"
    /\ IsRunning

\* C13: a worker that waits on the timer has made a tick, and every worker
\* spawned by Start gets inside a tick although the timer need never fire.
C13_ImmediateTick ==
    /\ [](\A w \in Workers : wpc[w] = "select" => ticks >= 1)
    /\ \A w \in Workers : (wpc[w] = "spawned") ~> Ticking(w)

\* the worker of a running scheduler waits on the timer, its only tick so
\* far being the immediate one
C13_Witness ==
    /\ lastOp = "Start"
    /\ nStarts = 1
    /\ wpc[1] = "select"
    /\ 1 \notin cancelled
    /\ ticks = 1

\* C14: a tick that panics ends like one that returns: the worker is at its
\* select, no field of the scheduler has changed and no channel is closed;
\* from there the next timer tick can begin, and a Stop that waits for a
\* worker whose tick panicked returns with the scheduler idle.
C14_PanicIsRecovered ==
    /\ [][\A w \in Workers :
            (Ticking(w) /\ ~Ticking(w)' /\ panicked') =>
                /\ wpc'[w] = "select"
                /\ UNCHANGED <<running, cancel, done, cancelled, closed>>]_vars
    /\ [](\A w \in Workers :
            (panicked /\ wpc[w] = "select" /\ ticks < MaxTicks)
                => ENABLED WorkerTickBegin(w))
    /\ \A c \in Callers :
          (panicked /\ cpc[c] = "stop_wait") ~> (cpc[c] = "stop_ret" /\ ~running)

\* the immediate tick panicked, and the worker of the still running
\* scheduler is inside the timer tick that followed
C14_Witness ==
    \E w \in Workers :
        /\ panicked
        /\ Ticking(w)
        /\ ticks = 2
        /\ w \notin cancelled
        /\ running

\* C15: the tick in progress holds the token of the current run, the one
\* s.cancel cancels; that token is cancelled when Stop is at its return
\* and afterwards until the next Start, and the token a Start has just
\* made is a new one and not cancelled.
C15_TickGetsRunToken ==
    /\ \A w \in Workers : Ticking(w) => (tickCtx = w /\ cancel = w)
    /\ \A c \in Callers : cpc[c] = "stop_ret" => cancel \in cancelled
    /\ StoppedWindow => cancel \in cancelled
    /\ \A c \in Callers :
          cpc[c] = "start_ret" => (cancel = nStarts /\ cancel \notin cancelled)

\* restarted after a Stop, the scheduler is inside the immediate tick of its
\* second run, with the second token, live, while the first is cancelled
C15_Witness ==
    /\ nStarts = 2
    /\ Ticking(2)
    /\ ticks = 1
    /\ tickCtx = 2
    /\ 1 \in cancelled
    /\ 2 \notin cancelled

\* ------------------------------------------------------------------- C21
\* the onSent hook of dispatcher d returns in this step
OnSentReturns(d) == pc[d] = "on_sent" /\ pc'[d] # "on_sent"

\* C21: SentCache errors are non-fatal. Whenever the onSent hook returns
\* with the row marked sent (MarkSent succeeded), the table is exactly what
\* MarkSent made of it whatever became of the cache write, the hook returns
\* nil and ProcessBatch goes on to the next message; the cache either took
\* the entry msg:<id> or is unchanged (StoreSent failed), and with no cache
\* configured it is never written.
C21_CacheErrorsNonFatal ==
    [][\A d \in Dispatchers :
          (OnSentReturns(d) /\ messages'[Current(d)].status = "sent") =>
              /\ messages' = MarkSent(messages, Current(d), remoteID[d], now')
              /\ hookErr'[d] = Null
              /\ pc'[d] = IF idx[d] < Len(msgs[d]) THEN "batch" ELSE "batch_done"
              /\ idx'[d] = idx[d] + 1
              /\ cache' \in {cache, StoreSent(cache, Current(d), remoteID[d])}
              /\ ~cacheOn => cache' = cache]_vars

\* a cache is configured, StoreSent failed for a row that MarkSent marked
\* sent, the hook returned nil and the batch has moved on to its next message
C21_Witness ==
    /\ cacheOn
    /\ pc[Proc] = "batch"
    /\ idx[Proc] = 2
    /\ hookErr[Proc] = Null
    /\ Status(msgs[Proc][1]) = "sent"
    /\ messages[msgs[Proc][1]].remote_message_id = remoteID[Proc]
    /\ cache[msgs[Proc][1]] = Null

\* ------------------------------------------------------------------- C22
\* C22: control API lifecycle responses carry the post-action flag. Every
\* response to POST /v1/scheduler/start is 200 with running = true and every
\* response to POST /v1/scheduler/stop is 200 with running = false, under
\* any interleaving of concurrent start and stop requests.
C22_ResponseCarriesPostActionFlag ==
    /\ body[1] = "start" => body[2] = 200 /\ body[3] = TRUE
    /\ body[1] = "stop" => body[2] = 200 /\ body[3] = FALSE

\* ------------------------------------------------------------------- C23
\* the hook for the failure of the current message of d returns in this step
OnFailedReturns(d) == pc[d] = "on_failed" /\ pc'[d] # "on_failed"

\* C23: cancellation mid-tick. When the tick's context is cancelled while a
\* Send is in flight, Send returns a cancellation error and the row being
\* sent ends up failed, with last_error naming the cancellation.
C23_CancelledSendMarksFailed ==
    [][\A d \in Dispatchers :
          (OnFailedReturns(d) /\ reason[d] = "context canceled") =>
              /\ messages'[Current(d)].status = "failed"
              /\ messages'[Current(d)].last_error = "context canceled"]_vars

\* ------------------------------------------------------------------- C24
\* C24 as stated: while the scheduler stays running and ClaimPending, Send
\* and MarkSent do not fail, every pending row is eventually sent, with its
\* cache entry written when a cache is configured.
C24_PendingReachesSent ==
    \A id \in RowIds :
        (id \in Rows /\ Status(id) = "pending")
            ~> (id \in Rows /\ Status(id) = "sent" /\ (cacheOn => cache[id] # Null))

\* C24, amended: while the scheduler stays running and ClaimPending, Send,
\* MarkSent and StoreSent do not fail, every pending row whose content is
\* within ContentMax is eventually claimed and sent, and its cache entry
\* msg:<id> holds its remote id when a cache is configured. ProcessBatch
\* never passes a longer row to Send.
C24_FittingPendingReachesSent ==
    \A id \in RowIds :
        (id \in Rows /\ Status(id) = "pending" /\ ~TooLong(messages, id))
            ~> /\ id \in Rows
               /\ Status(id) = "sent"
               /\ claimCount[id] = 1
               /\ cacheOn => cache[id] = messages[id].remote_message_id

\* with a cache configured, a row inserted after another one was sent has
\* itself been claimed and sent, both with their cache entries
C24_Witness ==
    /\ cacheOn
    /\ Len(messages) = 2
    /\ messages[1].sent_at < messages[2].created_at
    /\ \A id \in Rows :
          /\ Status(id) = "sent"
          /\ claimCount[id] = 1
          /\ cache[id] = messages[id].remote_message_id

\* ------------------------------------------------------------------- C25
\* the tick of d holds the rows its ClaimPending selected
HasBatch(d) == pc[d] \in {"claim_tx", "batch", "on_sent", "on_failed", "batch_done"}

\* rows of the batch of d for which Send has been called
SentToWebhook(d) == {id \in Range(msgs[d]) : sendCalls[id] > 0}

\* C25: per-tick batch bound. A tick claims at most as many rows as the
\* configured batch size and calls Send at most that many times (at most
\* once per claimed row), however many rows are pending.
C25_BatchBound ==
    \A d \in Dispatchers :
        HasBatch(d) =>
            /\ limit[d] \in BatchSizes
            /\ Len(msgs[d]) <= limit[d]
            /\ Cardinality(Range(msgs[d])) = Len(msgs[d])
            /\ \A id \in Range(msgs[d]) : sendCalls[id] <= 1
            /\ Cardinality(SentToWebhook(d)) <= limit[d]

\* a tick configured with batch size 1 has finished its batch, the one row
\* it claimed and sent to the webhook, while the row inserted before it, at
\* the same clock reading, is still pending
C25_Witness ==
    /\ pc[Proc] = "batch_done"
    /\ limit[Proc] = 1
    /\ msgs[Proc] = <<2>>
    /\ sendCalls[2] = 1
    /\ Status(1) = "pending"
    /\ messages[1].created_at = messages[2].created_at

\* ------------------------------------------------------------------- C26
\* this step applies MarkSent(id, remoteId) to a row that is already sent,
\* with the remote id the row already has
RepeatsMarkSent(id) ==
    /\ id \in Rows
    /\ Status(id) = "sent"
    /\ markSentCount'[id] = markSentCount[id] + 1
    /\ messages'[id].remote_message_id = messages[id].remote_message_id

\* C26 as stated: MarkSent is idempotent on repeat. Applying
\* MarkSent(id, remoteId) a second time to a row that is already sent leaves
\* the row in the state the first application left.
C26_MarkSentIdempotent ==
    [][\A id \in RowIds : RepeatsMarkSent(id) => messages'[id] = messages[id]]_vars

\* C26, amended: a repeated MarkSent(id, remoteId) leaves status,
\* remote_message_id and every other column as the first application left
\* them, except sent_at, which it sets again to the time of the repeat; the
\* row is the same only when the repeat reads the same clock value.
C26_RepeatRefreshesSentAt ==
    [][\A id \in RowIds :
          RepeatsMarkSent(id) =>
              /\ messages'[id] = [messages[id] EXCEPT !.sent_at = now']
              /\ messages'[id].sent_at >= messages[id].sent_at
              /\ \A o \in Rows \ {id} : messages'[o] = messages[o]]_vars

\* MarkSent has been applied twice to a row inserted at the first clock
\* value, the last time at the latest one
C26_Witness ==
    \E id \in Rows :
        /\ markSentCount[id] = 2
        /\ Status(id) = "sent"
        /\ messages[id].created_at = 1
        /\ messages[id].sent_at = MaxClock

\* ------------------------------------------------------------------- C27
\* a response with status 202, a JSON body and a non-empty messageId
Accepted(rsp) == rsp.status = 202 /\ rsp.json /\ rsp.messageId # ""

\* C27: WebhookClient.Send succeeds, returning the messageId, if and only
\* if the response has status 202, a body that is valid JSON and a
\* non-empty messageId; every other response, a transport failure and any
\* cancellation yield an error and no remote id. Stated for every input of
\* Send, and for every Send a tick has made: the batch is at the onSent hook
\* exactly when the webhook's answer was accepted, with that messageId.
C27_SendContract ==
    /\ \A c \in BOOLEAN : \A rsp \in AllResponses :
          /\ Send(c, rsp).err = Null <=> (~c /\ Accepted(rsp))
          /\ Send(c, rsp).err = Null => Send(c, rsp).id = rsp.messageId
          /\ Send(c, rsp).err # Null => Send(c, rsp).id = ""
    /\ \A d \in Dispatchers :
          /\ pc[d] = "on_sent" =>
                /\ Accepted(resp[d])
                /\ remoteID[d] = resp[d].messageId
                /\ okSends[Current(d)] = <<resp[d].messageId>>
          /\ (pc[d] = "on_failed" /\ sendCalls[Current(d)] > 0) =>
                /\ ~Accepted(resp[d])
                /\ okSends[Current(d)] = <<>>
                /\ reason[d] \in {"context canceled", "connection refused",
                                  "unexpected status code", "failed to decode json",
                                  "missing messageId in response"}

\* the webhook answered 202 with a JSON body that has no messageId: Send
\* returned an error and the message is on its way to onFailed
C27_Witness ==
    /\ pc[Proc] = "on_failed"
    /\ sendCalls[Current(Proc)] = 1
    /\ resp[Proc] = [status |-> 202, json |-> TRUE, messageId |-> ""]
    /\ reason[Proc] = "missing messageId in response"
    /\ okSends[Current(Proc)] = <<>>

\* ------------------------------------------------------------------- C28
\* ProcessBatch of d is running or has just returned
InBatch(d) == pc[d] \in {"batch", "on_sent", "on_failed", "batch_done"}

\* nothing has been done yet for the claimed row id
Untouched(id) ==
    /\ sendCalls[id] = 0
    /\ okSends[id] = <<>>
    /\ markSentCount[id] = 0
    /\ Status(id) = "processing"

\* C28: within a tick, messages are processed one after another in the
\* order ClaimPending returned them. While the batch of d is at message idx
\* (checking or sending it, or inside its outcome hook), every message
\* before it has been through its Send and its hook, and no Send and no
\* hook has been invoked for any message after it; the message at idx is
\* itself untouched until its turn.
C28_SequentialInOrder ==
    \A d \in Dispatchers :
        InBatch(d) =>
            /\ idx[d] \in 1..(Len(msgs[d]) + 1)
            /\ pc[d] = "batch_done" <=> idx[d] = Len(msgs[d]) + 1
            /\ \A i \in 1..Len(msgs[d]) :
                  /\ (i > idx[d] \/ (i = idx[d] /\ pc[d] = "batch")) =>
                         Untouched(msgs[d][i])
                  /\ (i < idx[d] \/ (i = idx[d] /\ pc[d] \in {"on_sent", "on_failed"})) =>
                         sendCalls[msgs[d][i]] =
                             IF TooLong(messages, msgs[d][i]) THEN 0 ELSE 1
                  /\ (i = idx[d] /\ pc[d] \in {"on_sent", "on_failed"}) =>
                         /\ Status(msgs[d][i]) = "processing"
                         /\ markSentCount[msgs[d][i]] = 0

\* the onSent hook of the first message of a batch of two has not returned
\* yet, and Send has not been invoked for the second
C28_Witness ==
    \E d \in Dispatchers :
        /\ pc[d] = "on_sent"
        /\ idx[d] = 1
        /\ Len(msgs[d]) = 2
        /\ sendCalls[msgs[d][1]] = 1
        /\ Untouched(msgs[d][2])

\* ------------------------------------------------------------------- C29
\* the row is in processing and no batch has it still ahead: its tick has
\* been through it (or never got it, the commit's acknowledgement lost)
Abandoned(id) ==
    /\ Status(id) = "processing"
    /\ \A d \in Dispatchers :
          ~(InBatch(d) /\ \E i \in idx[d]..Len(msgs[d]) : msgs[d][i] = id)

Undelivered(d) ==
    {id \in Range(msgs[d]) : Status(id) = "processing" /\ okSends[id] = <<>>}

\* C30: partial batch on cancellation. Once the tick's token is cancelled
\* with the batch claimed and not yet finished, every claimed message that
\* has not been delivered by then stays in processing, unchanged (neither
\* sent, failed nor pending), and no Send for it succeeds.
C30_CancelledBatchStaysProcessing ==
    [][\A d \in Dispatchers :
          (ctxDone[d] /\ InBatch(d)) =>
              \A id \in Undelivered(d) :
                  /\ messages'[id] = messages[id]
                  /\ okSends'[id] = <<>>
                  /\ markSentCount'[id] = 0]_vars

\* a batch of two whose token was cancelled after the first message was
\* sent: the Send of the second returned the cancellation error, its
\* MarkFailed failed, and the batch is over with the row in processing
C30_Witness ==
    \E d \in Dispatchers :
        /\ pc[d] = "batch_done"
        /\ ctxDone[d]
        /\ Len(msgs[d]) = 2
        /\ Status(msgs[d][1]) = "sent"
        /\ msgs[d][2] \in Undelivered(d)
        /\ sendCalls[msgs[d][2]] = 1
        /\ reason[d] = "context canceled"
        /\ hookErr[d] # Null

\* ------------------------------------------------------------------- C31
\* callers between s.mu.Lock() and the deferred Unlock of Start or Stop
InCall == {c \in Callers : cpc[c] \in {"start_ret", "stop_wait", "stop_ret"}}

\* the state a sequential execution of the calls that have taken the lock so
\* far, in that order, would be in: running after the last call that
\* returned true was a Start, with the call holding the lock half done
SerialState ==
    /\ Cardinality(InCall) <= 1
    /\ InCall = (IF mu = 0 THEN {} ELSE {mu})
    /\ InCall = {} => (running <=> lastOp = "Start")
    /\ \A c \in InCall :
          /\ cpc[c] = "start_ret" => running /\ lastOp # "Start"
          /\ cpc[c] = "stop_wait" => running /\ lastOp = "Start"
          /\ cpc[c] = "stop_ret" => ~running /\ lastOp = "Start"

\* C31: Start and Stop are mutually serialized. At most one call is between
\* Lock and Unlock, and every call takes effect as a whole in the order the
\* lock was taken: a call takes the lock only when no other holds it, Start
\* then returns false exactly when the calls before it left the scheduler
\* running and true otherwise, Stop the reverse, and the running flag after
\* each call is the one of that sequential order.
C31_StartStopSerialized ==
    [][/\ SerialState'
       /\ \A c \in Callers :
             /\ (cpc[c] \in {"start_lock", "stop_lock"} /\ cpc'[c] # cpc[c]) =>
                    mu = 0 /\ InCall = {}
             /\ (cpc[c] = "start_lock" /\ cpc'[c] # cpc[c]) =>
                    IF lastOp = "Start"
                    THEN ret'[c] = <<"Start", FALSE>> /\ cpc'[c] = "idle" /\ running'
                    ELSE cpc'[c] = "start_ret"
             /\ (cpc[c] = "stop_lock" /\ cpc'[c] # cpc[c]) =>
                    IF lastOp = "Start"
                    THEN cpc'[c] = "stop_wait"
                    ELSE ret'[c] = <<"Stop", FALSE>> /\ cpc'[c] = "idle" /\ ~running'
             /\ (cpc[c] = "start_ret" /\ cpc'[c] # cpc[c]) =>
                    ret'[c] = <<"Start", TRUE>> /\ running' /\ mu' = 0
             /\ (cpc[c] = "stop_ret" /\ cpc'[c] # cpc[c]) =>
                    ret'[c] = <<"Stop", TRUE>> /\ ~running' /\ mu' = 0]_vars

\* a Stop holds the lock, waiting for the tick in flight, while a Start
\* called meanwhile waits for the lock; an earlier Stop by that caller had
\* returned false
C31_Witness ==
    \E c1, c2 \in Callers :
        /\ cpc[c1] = "stop_wait"
        /\ Ticking(cancel)
        /\ cpc[c2] = "start_lock"
        /\ ret[c2] = <<"Stop", FALSE>>
        /\ nStarts < MaxStarts

\* ------------------------------------------------------------------- C32
\* the status changes the engine makes
StatusMoves ==
    { <<"pending", "processing">>, <<"processing", "sent">>, <<"processing", "failed">> }

\* C32: the engine changes a row's status only along pending -> processing,
\* processing -> sent and processing -> failed. No row returns to pending,
\* a failed row is never touched again, and no row is ever deleted.
C32_StatusTransitions ==
    [][messages' # messages =>
          /\ Len(messages') >= Len(messages)
          /\ \A id \in Rows :
                /\ messages'[id].status # Status(id) =>
                       <<Status(id), messages'[id].status>> \in StatusMoves
                /\ Status(id) = "failed" => messages'[id] = messages[id]
          /\ \A id \in (1..Len(messages')) \ Rows :
                messages'[id].status = "pending"]_vars

\* one row has gone pending -> processing -> sent, the other
\* pending -> processing -> failed, each claimed once
C32_Witness ==
    /\ Len(messages) = 2
    /\ Status(1) = "sent"
    /\ Status(2) = "failed"
    /\ messages[2].attempt_count = 1
    /\ claimCount[1] = 1 /\ claimCount[2] = 1
    /\ AllIdle

\* ------------------------------------------------------------------- C33
\* C33: whenever a tick invocation is in progress or the worker goroutine
\* is alive, IsRunning() is true. The flag is set by the Start that spawns
\* the worker and cleared only once the worker has closed its done channel;
\* at most one worker is alive, the one of the current run.
C33_AliveWorkerMeansRunning ==
    /\ \A w \in Workers :
          (Alive(w) \/ Ticking(w)) =>
              /\ IsRunning
              /\ w = cancel
              /\ w \notin closed
    /\ tickCtx # 0 => IsRunning
    /\ Cardinality({w \in Workers : Alive(w)}) <= 1
    /\ ~IsRunning => (nStarts > 0 => done \in closed)

\* Stop has cancelled the token and waits on done while the tick in flight
\* is still running: IsRunning() is still true
C33_Witness ==
    \E c \in Callers :
        /\ cpc[c] = "stop_wait"
        /\ cancel \in cancelled
        /\ Ticking(cancel)
        /\ IsRunning

\* ------------------------------------------------------------------- C34
\* a step in which worker w enters s.safeTick(ctx)
TickBegins(w) == wpc[w] # "tick" /\ wpc'[w] = "tick"

\* C34 as stated: no tick begins once the run's token has been cancelled.
\* Refuted: the immediate tick does not consult ctx, and the select may take
\* the ticker case while ctx.Done() is ready as well.
C34_NoTickBeginsAfterCancel ==
    [][\A w \in Workers : TickBegins(w) => w \notin cancelled]_vars

\* C34, amended: a tick may still begin after Stop has called cancel (the
\* immediate tick, or a timer tick chosen by the select), but only while that
\* Stop is blocked on the done channel the worker has not closed yet, and the
\* tick is handed the cancelled token; a worker that has exited begins none.
C34_LateTickOnlyWhileStopWaits ==
    [][\A w \in Workers :
          TickBegins(w) =>
              /\ wpc[w] \in {"first", "select"}
              /\ tickCtx' = w
              /\ w \in cancelled =>
                    /\ w = cancel
                    /\ wdone[w] \notin closed
                    /\ \E c \in Callers : cpc[c] = "stop_wait" /\ mu = c]_vars

\* Stop cancelled the token while the worker was not in a tick, and the
\* worker is now inside a tick that holds the cancelled token
C34_Witness ==
    /\ cancel \in cancelled
    /\ stopAt \in {"spawned", "first", "select"}
    /\ Ticking(cancel)
    /\ tickCtx = cancel
    /\ \E c \in Callers : cpc[c] = "stop_wait"

\* ------------------------------------------------------------------- C35
\* worker w's tick function is inside a Start or Stop call
TickInCall(w) == wpc[w] \in {"tick_start_lock", "tick_stop_lock", "tick_stop_wait"}

\* C35 as stated: every Start and every Stop call eventually returns, the
\* calls made by the tick function included. Refuted: a Stop called by the
\* tick function holds the mutex and waits for a done channel that only its
\* own worker closes, after the tick has returned.
C35_LifecycleCallsReturn ==
    /\ \A c \in FairCallers : (cpc[c] # "idle") ~> (cpc[c] = "idle")
    /\ \A w \in Workers : TickInCall(w) ~> (wpc[w] = "tick")

\* the state the refuting behaviour stays in: the tick's Stop holds the
\* mutex at <-s.done, its worker has not closed done, a caller is at Lock
C35_SelfStopDeadlock ==
    \E w \in Workers :
        /\ wpc[w] = "tick_stop_wait"
        /\ mu = InTick
        /\ done \notin closed
        /\ \E c \in FairCallers : cpc[c] \in {"start_lock", "stop_lock"}

\* ------------------------------------------------------------------- C36
\* C36: ProcessBatch counts every input message once and invokes one hook
\* for it. Before message idx is looked at, sent + failed = idx - 1; while
\* its hook (onSent or onFailed, never both) is running it is counted,
\* sent + failed = idx; whatever the hook returns, and whether or not the
\* context has been cancelled, the loop goes on to idx + 1, and ProcessBatch
\* returns with sent + failed = len(msgs).
C36_CountsCoverBatch ==
    \A d \in Dispatchers :
        /\ pc[d] = "batch" =>
              /\ idx[d] \in 1..Len(msgs[d])
              /\ sent[d] + failed[d] = idx[d] - 1
        /\ pc[d] \in {"on_sent", "on_failed"} =>
              /\ idx[d] \in 1..Len(msgs[d])
              /\ sent[d] + failed[d] = idx[d]
              /\ (pc[d] = "on_sent") = SendSucceeded(Current(d))
        /\ pc[d] = "batch_done" =>
              /\ idx[d] = Len(msgs[d]) + 1
              /\ sent[d] + failed[d] = Len(msgs[d])
              /\ sent[d] = Cardinality({id \in Range(msgs[d]) : SendSucceeded(id)})

\* a batch of two has returned (1, 1): the context was cancelled during the
\* batch and the last hook returned an error
C36_Witness ==
    \E d \in Dispatchers :
        /\ pc[d] = "batch_done"
        /\ Len(msgs[d]) = 2
        /\ ctxDone[d]
        /\ hookErr[d] # Null
        /\ sent[d] = 1 /\ failed[d] = 1

\* ------------------------------------------------------------------- C37
\* C37: a row is handed to the webhook at most once over the whole
\* execution, whether its Send succeeded or not: a failed row, or a row left
\* in processing, is never claimed again. So attempt_count is 0 or 1, and it
\* is 1 exactly for the rows in failed.
C37_OneAttemptPerRow ==
    \A id \in Rows :
        /\ sendCalls[id] <= 1
        /\ claimCount[id] <= 1
        /\ Len(okSends[id]) <= 1
        /\ messages[id].attempt_count \in {0, 1}
        /\ (messages[id].attempt_count = 1) = (Status(id) = "failed")
        /\ Status(id) = "pending" => sendCalls[id] = 0

\* both rows went to the webhook once and neither was delivered: one is
\* failed with attempt_count 1, the other stranded in processing with 0,
\* and every tick has returned
C37_Witness ==
    /\ Len(messages) = 2
    /\ AllIdle
    /\ \E a, b \in Rows :
          /\ Status(a) = "failed" /\ sendCalls[a] = 1
          /\ messages[a].attempt_count = 1
          /\ Status(b) = "processing" /\ sendCalls[b] = 1
          /\ messages[b].attempt_count = 0

\* ------------------------------------------------------------------- C38
\* C38: the cache never runs ahead of the store. Every key msg:<id> in the
\* cache belongs to a row that is sent and whose remote_message_id is the
\* cached one; without a cache configured there is no entry at all.
C38_CacheBehindStore ==
    /\ \A id \in DOMAIN cache :
          cache[id] # Null =>
              /\ cacheOn
              /\ id \in Rows
              /\ Status(id) = "sent"
              /\ messages[id].remote_message_id = cache[id]
              /\ markSentCount[id] >= 1

\* with a cache configured two rows are sent: one has its cache entry, the
\* other has none because its StoreSent failed
C38_Witness ==
    /\ cacheOn
    /\ Len(messages) = 2
    /\ \E a, b \in Rows :
          /\ Status(a) = "sent" /\ cache[a] = messages[a].remote_message_id
          /\ Status(b) = "sent" /\ cache[b] = Null

\* ------------------------------------------------------------------- C39
\* C39: a tick whose token is already cancelled when it calls ClaimPending
\* has no effect. The step that takes it out of ClaimPending is the return
\* of the tick: no row is selected or changed, nothing is handed to the
\* webhook, no hook runs, the cache is untouched.
C39_CancelledTickHasNoEffect ==
    [][(pc[Proc] = "claim" /\ ctxDone[Proc] /\ pc'[Proc] # "claim") =>
          /\ pc'[Proc] = "idle"
          /\ msgs'[Proc] = <<>>
          /\ messages' = messages
          /\ cache' = cache
          /\ UNCHANGED histVars]_vars

\* a tick is at ClaimPending with a cancelled token, a positive limit and
\* two pending rows to take
C39_Witness ==
    /\ pc[Proc] = "claim"
    /\ ctxDone[Proc]
    /\ limit[Proc] = BatchSize
    /\ Len(messages) = 2
    /\ \A id \in Rows : Status(id) = "pending"

\* ------------------------------------------------------------------- C40
\* runWithGracefulShutdown's sched.Stop() has returned and the process has
\* not exited yet
SchedulerStoppedForExit ==
    \/ api[Main] = "shutdown" /\ cpc[Main] = "idle"
    \/ api[Main] = "closed"

\* C40 as stated: once runWithGracefulShutdown has stopped the scheduler no
\* tick executes before the process exits. Refuted: the server still serves
\* requests after sched.Stop() has returned, and a POST /v1/scheduler/start
\* starts the scheduler again.
C40_NoTickAfterShutdownStop ==
    SchedulerStoppedForExit => \A w \in Workers : ~Ticking(w)

\* the listeners are closed, the shutdown's Stop returned true, and a
\* worker started by a request is inside a tick with a live token
C40_TickDuringShutdown ==
    /\ api[Main] = "closed"
    /\ ret[Main] = <<"Stop", TRUE>>
    /\ \E w \in Workers : Ticking(w) /\ w \notin cancelled /\ running

====
